---------------------------- MODULE Spec2Model ----------------------------
(***************************************************************************)
(* A model of the GoCluster spot pipeline: the harmonic detector, the      *)
(* call-correction stage, the deduplicators and the post-dedup pipeline.   *)
(*                                                                         *)
(* Each subsystem has its own variables and its own specification          *)
(* (SpecHarmonic, SpecSuggest, ...).  A subsystem's specification holds    *)
(* the variables of the other subsystems at their idle values.             *)
(*                                                                         *)
(* Units: a frequency is an integer number of Hz (the code holds kHz as a  *)
(* float64, and compares against FrequencyToleranceHz/1000); a time is an  *)
(* integer number of clock ticks.                                          *)
(***************************************************************************)
EXTENDS Integers, Sequences, FiniteSets, TLC

VARIABLES
    \* ---- harmonic detector (spot/mode_alloc.go) ----
    hdSettings,     \* HarmonicDetector.settings
    hdEntries,      \* HarmonicDetector.entries: call -> sequence of harmonicEntry
    hdNow,          \* the wall clock handed to ShouldDrop
    hdCalls,        \* number of ShouldDrop calls made so far
    hdLast,         \* the last ShouldDrop call: its arguments, the entries before it, its results
    \* ---- SuggestCallCorrection (spot/correction_test.go) ----
    sgOthers,       \* the candidate spots handed to SuggestCallCorrection
    sgSettings,     \* the CorrectionSettings handed to it
    sgResult,       \* its results, once it has run
    \* ---- maybeApplyCallCorrection (main.go) ----
    apCfg,          \* config.CallCorrectionConfig, and whether the CTY database loaded
    apIndex,        \* the CorrectionIndex: the entries it holds
    apCalls,        \* number of calls made so far
    apLast,         \* the last call: its spot, what SuggestCallCorrection returned, its outcome
    \* ---- the post-dedup pipeline (main.go) ----
    plOut,          \* the deduplicator's output channel
    plEmitted,      \* the spots the deduplicator has emitted so far
    plAvg,          \* the FrequencyAverager: its reports
    plDone,         \* per spot processed: the goroutine that took it, and what became of it
    plBuffer,       \* the ring buffer: the ids of the spots added
    plBroadcast,    \* the ids of the spots handed to telnet.BroadcastSpot, in order
    \* ---- dedup.Deduplicator ----
    ddCache,        \* fingerprint -> time it was last let through
    ddNow,          \* the clock, in ticks
    ddStats,        \* the counters GetStats reports: processed, duplicates
    ddLog,          \* per arrival: the spot, its arrival time, what became of it
    \* ---- dedup.SecondaryDeduper ----
    sdSeen,         \* per source class and key: the time of the last spot forwarded
    sdNow,          \* the clock, in ticks
    sdLog,          \* per ShouldForward call: the spot and the answer
    \* ---- ingest: the line parser, the frame conversion, mode normalization ----
    igInput,        \* the input about to arrive: a line, a frame, or a mode and a frequency
    igClient,       \* the rbn.Client: minimalParse, skewStore, name, port
    igModeAlloc,    \* the band table loaded from mode_allocations.yaml
    igChan,         \* Client.spotChan
    igCalls,        \* number of parseSpot calls made so far
    igParsed,       \* the last parseSpot call: what it built, the channel before, what became of the spot
    igFrameOut,     \* what parseSpotFromFrame returned
    igModeOut,      \* FinalizeMode of the input, and FinalizeMode of that
    \* ---- telnet sessions ----
    tnSessions,     \* per connection: its state and the callsign it logged in with
    tnClients,      \* the registry: normalized callsign -> the session registered under it
    \* ---- the session filter ----
    ftFilter,       \* the Filter: its whitelists and All flags
    ftSpot,         \* the spot Matches is asked about
    ftEdits,        \* number of whitelist edits made so far
    ftLast,         \* the last Matches call: its answer
    \* ---- a source client, its forwarder and the archive queue ----
    scShutdown,     \* c.shutdown is closed
    scReconnect,    \* c.reconnect holds a request
    scReadLoop,     \* readLoop: "running" or "done"
    scSupervisor,   \* connectionSupervisor: "select", "backoff" or "done"
    scUnlicensed,   \* unlicensedLoop: "select" or "done"
    scForwarder,    \* processRBNSpots: where it is and the spot in hand
    scSpotChan,     \* c.spotChan
    scDedupInput,   \* the deduplicator's input channel
    scQueue,        \* Writer.queue
    scDropCount,    \* Writer.dropCount
    scCount,        \* history: lines read, errors, failed dials, spots offered and dropped
    scLast,         \* the last publish or Enqueue: the queue before and after
    scDelay,        \* connectionSupervisor: delay, in seconds (0: not in the retry loop)
    scWaits,        \* history: the waits of the retry loop in progress
    scReceived,     \* history: the spots received from GetSpotChannel
    \* ---- parseTimeFromRBN ----
    tmToken,        \* the time token of the line
    tmNow,          \* time.Now().UTC(), in seconds
    tmOut,          \* the last call: the instant returned
    \* ---- a source client's connection ----
    cnShutdown,     \* c.shutdown is closed
    cnReconnect,    \* a request is in the reconnect channel
    cnConn,         \* c.conn: the number of the connection it holds, 0 for nil
    cnConnected,    \* c.connected
    cnOpen,         \* the connections dialled and not closed
    cnLoops,        \* where each connection's read loop is
    cnSupervisor,   \* where connectionSupervisor is
    cnProcess,      \* "running", or "crashed" after an unrecovered panic
    cnLast,         \* the last step of a read loop on its way out
    \* ---- the adaptive refresher ----
    rfCfg,          \* the refresh configuration
    rfNow,          \* the clock, in minutes
    rfLastRun,      \* r.lastRun, 0 for the zero time
    rfSpotCount,    \* r.spotCount
    rfCall,         \* the call of maybeRefresh in progress
    rfTotal,        \* the calls of IncrementSpots so far
    rfCredited,     \* the sum of the counts the runs were allowed on
    rfLast,         \* the last step of maybeRefresh
    \* ---- the peer backoff ----
    bkArgs,         \* the arguments of newBackoff
    bkBackoff,      \* the backoff: cur, max
    bkCalls,        \* the calls of Next and Reset so far
    bkResets,       \* the calls of Reset so far
    bkLast,         \* the last call: the delay returned, the one before it
    \* ---- the peer dedupeCache ----
    snItems,        \* c.items: key -> time of the sighting
    snNow,          \* the clock
    snCalls,        \* the calls of markSeen and prune so far
    snLast          \* the last call and the items before it

hdVars == <<hdSettings, hdEntries, hdNow, hdCalls, hdLast>>
sgVars == <<sgOthers, sgSettings, sgResult>>
apVars == <<apCfg, apIndex, apCalls, apLast>>

sdVars == <<sdSeen, sdNow, sdLog>>
ddVars == <<ddCache, ddNow, ddStats, ddLog>>
plVars == <<plOut, plEmitted, plAvg, plDone, plBuffer, plBroadcast>>
igVars == <<igInput, igClient, igModeAlloc, igChan, igCalls, igParsed, igFrameOut, igModeOut>>
tnVars == <<tnSessions, tnClients>>
ftVars == <<ftFilter, ftSpot, ftEdits, ftLast>>
scVars == <<scShutdown, scReconnect, scReadLoop, scSupervisor, scUnlicensed, scForwarder, scSpotChan, scDedupInput, scQueue, scDropCount, scCount, scLast, scDelay, scWaits, scReceived>>
tmVars == <<tmToken, tmNow, tmOut>>
cnVars == <<cnShutdown, cnReconnect, cnConn, cnConnected, cnOpen, cnLoops, cnSupervisor, cnProcess, cnLast>>
rfVars == <<rfCfg, rfNow, rfLastRun, rfSpotCount, rfCall, rfTotal, rfCredited, rfLast>>
bkVars == <<bkArgs, bkBackoff, bkCalls, bkResets, bkLast>>
snVars == <<snItems, snNow, snCalls, snLast>>
edgeVars == <<igVars, tnVars, ftVars, scVars, tmVars, cnVars, rfVars, bkVars, snVars>>

vars == <<hdSettings, hdEntries, hdNow, hdCalls, hdLast, sgOthers, sgSettings, sgResult,
          apCfg, apIndex, apCalls, apLast,
          plOut, plEmitted, plAvg, plDone, plBuffer, plBroadcast,
          ddCache, ddNow, ddStats, ddLog,
          sdSeen, sdNow, sdLog,
          igInput, igClient, igModeAlloc, igChan, igCalls, igParsed, igFrameOut, igModeOut,
          tnSessions, tnClients,
          ftFilter, ftSpot, ftEdits, ftLast,
          scShutdown, scReconnect, scReadLoop, scSupervisor, scUnlicensed, scForwarder, scSpotChan, scDedupInput, scQueue, scDropCount, scCount, scLast, scDelay, scWaits, scReceived,
          tmToken, tmNow, tmOut,
          cnShutdown, cnReconnect, cnConn, cnConnected, cnOpen, cnLoops, cnSupervisor, cnProcess, cnLast,
          rfCfg, rfNow, rfLastRun, rfSpotCount, rfCall, rfTotal, rfCredited, rfLast,
          bkArgs, bkBackoff, bkCalls, bkResets, bkLast,
          snItems, snNow, snCalls, snLast>>

Abs(x) == IF x < 0 THEN -x ELSE x

\* The subsets of S with at most n elements.
RECURSIVE SubsetsUpTo(_, _)
SubsetsUpTo(S, n) ==
    IF n = 0 THEN {{}}
    ELSE LET P == SubsetsUpTo(S, n - 1)
         IN P \cup {T \cup {x} : T \in P, x \in S}

(***************************************************************************)
(* Harmonic detector                                                       *)
(***************************************************************************)

\* Bounds of the harmonic model.
MaxHdCalls == 3
MaxHdTime == 2

\* The zero time.Time (entry.at.IsZero()): earlier than every clock value.
ZeroTime == -1000

HdDXCalls == {"K1AB", "K1A8", "K9Z8"}
\* 7011.000 kHz, its second harmonic + 20 Hz, its third harmonic + 40 Hz.
HdFrequencies == {7011000, 14022020, 21033040}
HdReports == {10, 20}
\* A spot's Time may be ahead of the clock by more than the recency window.
HdAhead == 3

\* The spots handed to ShouldDrop: the CW spots of K1ABC timed at the clock,
\* its second harmonic timed ahead of the clock, a fundamental of another
\* call, a second harmonic in a mode that is not checked, and a spot whose
\* DX call is empty.
HdSpots ==
    [DXCall : {"K1AB"}, Mode : {"CW"}, Frequency : HdFrequencies,
     Report : HdReports, Offset : {0}]
    \cup [DXCall : {"K1AB"}, Mode : {"CW"}, Frequency : {14022020},
          Report : HdReports, Offset : {HdAhead}]
    \cup [DXCall : {"K9Z8"}, Mode : {"CW"}, Frequency : {7011000},
          Report : {20}, Offset : {0}]
    \cup [DXCall : {"K1AB"}, Mode : {"FT8"}, Frequency : {14022020},
          Report : {10}, Offset : {0}]
    \cup [DXCall : {""}, Mode : {"CW"}, Frequency : {14022020},
          Report : {10}, Offset : {0}]

\* The settings of harmonics_test.go, the same with the report check off, and
\* both with the detector disabled.
HdSettingsSet == [Enabled : BOOLEAN, RecencyWindow : {2}, MaxHarmonicMultiple : {4},
                  FrequencyToleranceHz : {25}, MinReportDelta : {0, 6}]

\* Only CW and RTTY spots are candidates for correction and harmonic checks.
IsCallCorrectionCandidate(mode) == mode \in {"CW", "RTTY"}

\* HarmonicDetector.prune: keep the entries whose time is after now - window.
prune(slice, now, window) ==
    LET cutoff == now - window
        keep(entry) == entry.at > cutoff
    IN SelectSeq(slice, keep)

\* One entry of detectHarmonic's loop: the entry's frequency when the spot is
\* a harmonic of it, 0 otherwise.
matchEntryNoReportCheck(settings, entry, sFrequency, sReport, sTime) ==
    IF entry.frequency <= 0 \/ sFrequency <= entry.frequency THEN 0
    ELSE IF \E mult \in 2..settings.MaxHarmonicMultiple :
               /\ Abs(entry.frequency * mult - sFrequency) <= settings.FrequencyToleranceHz
               /\ (entry.at = ZeroTime \/ sTime - entry.at <= settings.RecencyWindow)
         THEN entry.frequency
         ELSE 0

matchEntry(settings, entry, sFrequency, sReport, sTime) ==
    LET minDelta == settings.MinReportDelta
    IN IF entry.frequency <= 0 \/ sFrequency <= entry.frequency THEN 0
       ELSE IF minDelta > 0 /\ (entry.report - sReport) < minDelta THEN 0
       ELSE IF \E mult \in 2..settings.MaxHarmonicMultiple :
                  /\ Abs(entry.frequency * mult - sFrequency) <= settings.FrequencyToleranceHz
                  /\ (entry.at = ZeroTime \/ sTime - entry.at <= settings.RecencyWindow)
            THEN entry.frequency
            ELSE 0

\* HarmonicDetector.detectHarmonic: the first entry, in order, that matches.
RECURSIVE detectFrom(_, _, _, _, _, _)
detectFrom(settings, candidates, i, sFrequency, sReport, sTime) ==
    IF i > Len(candidates) THEN 0
    ELSE LET f == matchEntry(settings, candidates[i], sFrequency, sReport, sTime)
         IN IF f > 0 THEN f
            ELSE detectFrom(settings, candidates, i + 1, sFrequency, sReport, sTime)

detectHarmonic(settings, candidates, sFrequency, sReport, sTime) ==
    detectFrom(settings, candidates, 1, sFrequency, sReport, sTime)

HdIdleLast == [acted |-> FALSE, DXCall |-> "", Mode |-> "", Frequency |-> 0, Report |-> 0,
               Time |-> 0, now |-> 0, before |-> <<>>, drop |-> FALSE, fundamental |-> 0]

HdIdleSettings == [Enabled |-> TRUE, RecencyWindow |-> 2, MaxHarmonicMultiple |-> 4,
                   FrequencyToleranceHz |-> 25, MinReportDelta |-> 6]

HdInit ==
    /\ hdSettings \in HdSettingsSet
    /\ hdEntries = [c \in HdDXCalls |-> <<>>]
    /\ hdNow = 0
    /\ hdCalls = 0
    /\ hdLast = HdIdleLast

HdIdle ==
    /\ hdSettings = HdIdleSettings
    /\ hdEntries = [c \in HdDXCalls |-> <<>>]
    /\ hdNow = 0
    /\ hdCalls = 0
    /\ hdLast = HdIdleLast

\* The clock advances between calls.
HdTick ==
    /\ hdNow < MaxHdTime
    /\ hdNow' = hdNow + 1
    /\ UNCHANGED <<hdSettings, hdEntries, hdCalls, hdLast>>

\* The same, storing the spot whatever detectHarmonic said.
recordFundamentalAlways(pruned, s, fundamental) ==
    Append(pruned, [frequency |-> s.Frequency, report |-> s.Report, at |-> s.Time])

\* The end of ShouldDrop: a spot found to be a harmonic returns before the
\* append, any other is appended to its call's entries as a potential
\* fundamental.
recordFundamental(pruned, s, fundamental) ==
    IF fundamental > 0
    THEN pruned
    ELSE Append(pruned, [frequency |-> s.Frequency, report |-> s.Report, at |-> s.Time])

\* HarmonicDetector.ShouldDrop(s, now).
ShouldDrop(s, now) ==
    LET call == s.DXCall
        before == IF call \in DOMAIN hdEntries THEN hdEntries[call] ELSE <<>>
        result(drop, fundamental) ==
            [acted |-> TRUE, DXCall |-> call, Mode |-> s.Mode, Frequency |-> s.Frequency,
             Report |-> s.Report, Time |-> s.Time, now |-> now, before |-> before,
             drop |-> drop, fundamental |-> fundamental]
    IN /\ hdCalls' = hdCalls + 1
       /\ UNCHANGED hdSettings
       /\ IF ~hdSettings.Enabled \/ ~IsCallCorrectionCandidate(s.Mode) \/ call = ""
          THEN /\ hdLast' = result(FALSE, 0)
               /\ UNCHANGED hdEntries
          ELSE LET pruned == prune(before, now, hdSettings.RecencyWindow)
                   fundamental == detectHarmonic(hdSettings, pruned, s.Frequency, s.Report, s.Time)
               IN /\ hdLast' = result(fundamental > 0, fundamental)
                  /\ hdEntries' = [hdEntries EXCEPT ![call] =
                                       recordFundamental(pruned, s, fundamental)]

\* One call of ShouldDrop at the current time, on a spot stamped s.Offset
\* ticks ahead of it.
HdShouldDrop ==
    \E s \in HdSpots :
        /\ hdCalls < MaxHdCalls
        /\ UNCHANGED hdNow
        /\ ShouldDrop([DXCall |-> s.DXCall, Mode |-> s.Mode, Frequency |-> s.Frequency,
                       Report |-> s.Report, Time |-> hdNow + s.Offset], hdNow)

HdNext == HdTick \/ HdShouldDrop

(***************************************************************************)
(* SuggestCallCorrection                                                   *)
(*                                                                         *)
(* The function is modelled from its documented consensus procedure and    *)
(* from spot/correction_test.go.  Its caller hands it the subject spot,    *)
(* the candidate spots, the settings and the current time.                 *)
(***************************************************************************)

\* Bound: the number of candidate spots handed to one call.
MaxOthers == 3

\* Calls as their characters, for the edit distance.
CallChars ==
    [call \in {"K1AB", "K1A8", "K9Z8"} |->
        CASE call = "K1AB" -> <<"K", "1", "A", "B">>
          [] call = "K1A8" -> <<"K", "1", "A", "8">>
          [] call = "K9Z8" -> <<"K", "9", "Z", "8">>]

Min3(a, b, c) == IF a <= b /\ a <= c THEN a ELSE IF b <= c THEN b ELSE c

\* The plain Levenshtein distance of two character sequences.
RECURSIVE Levenshtein(_, _)
Levenshtein(a, b) ==
    IF Len(a) = 0 THEN Len(b)
    ELSE IF Len(b) = 0 THEN Len(a)
    ELSE Min3(Levenshtein(Tail(a), b) + 1,
              Levenshtein(a, Tail(b)) + 1,
              Levenshtein(Tail(a), Tail(b)) + (IF Head(a) = Head(b) THEN 0 ELSE 1))

\* The distances of the calls of the model, computed once.
DistanceTable ==
    [a \in DOMAIN CallChars, b \in DOMAIN CallChars |-> Levenshtein(CallChars[a], CallChars[b])]

callDistance(subject, candidate) == DistanceTable[subject, candidate]

\* The subject of every call: K1AB spotted by W1AAA at SgT0.
SgT0 == 5
SgSubject == [DXCall |-> "K1AB", DECall |-> "W1AAA", Frequency |-> 14074000, Time |-> SgT0]

\* Candidates: the subject's call, a call at distance 1 and a call at distance
\* 3; the subject's spotter and three others; at the subject's time, one
\* tick before it, or three ticks before it (outside a window of 2).
SgEntries == [DXCall : {"K1AB", "K1A8", "K9Z8"},
              DECall : {"W1AAA", "W2BBB", "W3CCC", "W4DDD"},
              Frequency : {14074000},
              Time : {SgT0, SgT0 - 1, SgT0 - 3}]

SgSettingsSet ==
    { [MinConsensusReports |-> 3, MinAdvantage |-> 1, MinConfidencePercent |-> 50,
       MaxEditDistance |-> 2, RecencyWindow |-> 2,
       Distance3ExtraAdvantage |-> 0, Distance3ExtraConfidence |-> 0],
      [MinConsensusReports |-> 2, MinAdvantage |-> 1, MinConfidencePercent |-> 60,
       MaxEditDistance |-> 3, RecencyWindow |-> 2,
       Distance3ExtraAdvantage |-> 1, Distance3ExtraConfidence |-> 5],
      [MinConsensusReports |-> 2, MinAdvantage |-> 2, MinConfidencePercent |-> 70,
       MaxEditDistance |-> 3, RecencyWindow |-> 2,
       Distance3ExtraAdvantage |-> 0, Distance3ExtraConfidence |-> 0] }

\* Step 1 of the procedure: a candidate counts when its time is within the
\* recency window of the subject's and its spotter is not the subject's.
keepCandidateAnySpotter(subject, e, settings) ==
    Abs(subject.Time - e.Time) <= settings.RecencyWindow

keepCandidateAnyTime(subject, e, settings) ==
    e.DECall # subject.DECall

keepCandidate(subject, e, settings) ==
    /\ Abs(subject.Time - e.Time) <= settings.RecencyWindow
    /\ e.DECall # subject.DECall

\* Steps 2 and 3: the unique spotters reporting a call.
reportersCountingEntries(subject, others, settings, call) ==
    {e.DECall \o "@" \o ToString(e.Time) :
        e \in {o \in others : keepCandidate(subject, o, settings) /\ o.DXCall = call}}

reporters(subject, others, settings, call) ==
    {e.DECall : e \in {o \in others : keepCandidate(subject, o, settings) /\ o.DXCall = call}}

\* Step 4: the subject's support counts the subject's own spotter.
subjectSupport(subject, others, settings) ==
    Cardinality(reporters(subject, others, settings, subject.DXCall) \cup {subject.DECall})

\* The sum, over the groups other than the subject's, of their unique spotters.
RECURSIVE groupSum(_, _, _, _)
groupSum(groups, subject, others, settings) ==
    IF groups = {} THEN 0
    ELSE LET call == CHOOSE c \in groups : TRUE
         IN Cardinality(reporters(subject, others, settings, call))
            + groupSum(groups \ {call}, subject, others, settings)

totalReporters(subject, others, settings) ==
    groupSum({e.DXCall : e \in others} \ {subject.DXCall}, subject, others, settings)
    + subjectSupport(subject, others, settings)

Max2(a, b) == IF a >= b THEN a ELSE b

confidencePercent(support, total) == (support * 100) \div Max2(total, 1)

\* Step 7, as cmd/simulate_threshold's checkThresholds: d carries the winner's
\* support and confidence, the subject's support and the edit distance; the
\* distance-3 adders are the settings' (1 and 5 in that tool).
checkThresholdsNoAdvantage(d, minReports, minAdvantage, minConfidence, extraAdvantage, extraConfidence) ==
    /\ d.winnerSupport >= minReports
    /\ d.winnerConfidence >= minConfidence
    /\ (d.distance = 3 => d.winnerConfidence >= minConfidence + extraConfidence)

checkThresholds(d, minReports, minAdvantage, minConfidence, extraAdvantage, extraConfidence) ==
    LET advantage == d.winnerSupport - d.subjectSupport
    IN IF d.winnerSupport < minReports THEN FALSE
       ELSE IF advantage < minAdvantage THEN FALSE
       ELSE IF d.winnerConfidence < minConfidence THEN FALSE
       ELSE IF d.distance = 3 /\ advantage < minAdvantage + extraAdvantage THEN FALSE
       ELSE IF d.distance = 3 /\ d.winnerConfidence < minConfidence + extraConfidence THEN FALSE
       ELSE TRUE

\* Step 5: the groups that may win: not the subject's call, within the edit
\* distance, with the highest support among those.
eligibleCalls(subject, others, settings) ==
    {call \in {e.DXCall : e \in others} :
        /\ call # subject.DXCall
        /\ callDistance(subject.DXCall, call) <= settings.MaxEditDistance
        /\ reporters(subject, others, settings, call) # {}}

winningCalls(subject, others, settings) ==
    LET elig == eligibleCalls(subject, others, settings)
        size(call) == Cardinality(reporters(subject, others, settings, call))
    IN {call \in elig : \A other \in elig : size(call) >= size(other)}

\* The results of SuggestCallCorrection when `winner` is the winning group
\* ("" when there is none).
suggestResult(subject, others, settings, winner) ==
    LET total == totalReporters(subject, others, settings)
        subj == subjectSupport(subject, others, settings)
        subjConf == confidencePercent(subj, total)
    IN IF winner = ""
       THEN [done |-> TRUE, call |-> "", supporters |-> 0, confidence |-> 0,
             subjectConfidence |-> subjConf, total |-> total, ok |-> FALSE]
       ELSE LET support == Cardinality(reporters(subject, others, settings, winner))
                conf == confidencePercent(support, total)
                d == [winnerSupport |-> support, subjectSupport |-> subj,
                      winnerConfidence |-> conf,
                      distance |-> callDistance(subject.DXCall, winner)]
                ok == checkThresholds(d, settings.MinConsensusReports, settings.MinAdvantage,
                                      settings.MinConfidencePercent,
                                      settings.Distance3ExtraAdvantage,
                                      settings.Distance3ExtraConfidence)
            IN [done |-> TRUE, call |-> IF ok THEN winner ELSE "",
                supporters |-> support, confidence |-> conf,
                subjectConfidence |-> subjConf, total |-> total, ok |-> ok]

\* Every result SuggestCallCorrection may return: groups of equal support are
\* not ordered, so any of them may be the winner.
SuggestCallCorrection(subject, others, settings) ==
    LET winners == winningCalls(subject, others, settings)
    IN IF winners = {}
       THEN {suggestResult(subject, others, settings, "")}
       ELSE {suggestResult(subject, others, settings, w) : w \in winners}

SgIdleResult == [done |-> FALSE, call |-> "", supporters |-> 0, confidence |-> 0,
                 subjectConfidence |-> 0, total |-> 0, ok |-> FALSE]

SgInit ==
    /\ sgOthers \in SubsetsUpTo(SgEntries, MaxOthers)
    /\ sgSettings \in SgSettingsSet
    /\ sgResult = SgIdleResult

SgIdle ==
    /\ sgOthers = {}
    /\ sgSettings = CHOOSE s \in SgSettingsSet : s.MinConsensusReports = 3
    /\ sgResult = SgIdleResult

\* One call of SuggestCallCorrection on the inputs drawn.
SgSuggest ==
    /\ ~sgResult.done
    /\ sgResult' \in SuggestCallCorrection(SgSubject, sgOthers, sgSettings)
    /\ UNCHANGED <<sgOthers, sgSettings>>

SgNext == SgSuggest

(***************************************************************************)
(* maybeApplyCallCorrection                                                *)
(*                                                                         *)
(* The call-correction stage of processOutputSpots.  The CorrectionIndex   *)
(* (spot/correction_index.go is not among the sources) is modelled as the  *)
(* set of the entries it holds: Candidates returns those inside the        *)
(* recency window, Add inserts the spot and evicts the entries outside it. *)
(* Every spot of this model is on one frequency, 14074.0 kHz.              *)
(***************************************************************************)

\* Bounds: the entries the index holds at the start, and the calls made.
MaxIndex == 3
MaxApplyCalls == 1

\* The clock of the calls (time.Now().UTC()).
ApNow == 5

ApDXCalls == {"K1AB", "K1A8", "K9Z8"}
ApDECalls == {"W1AAA", "W2BBB", "W3CCC"}

\* The spots that reach the stage: CW spots, and one FT8 spot.
ApSpots ==
    [DXCall : ApDXCalls, DECall : ApDECalls, Mode : {"CW"}, Frequency : {14074000}, Time : {ApNow}]
    \cup [DXCall : {"K1AB"}, DECall : {"W1AAA"}, Mode : {"FT8"}, Frequency : {14074000}, Time : {ApNow}]

\* The entries the index may hold at the start: earlier CW spots inside the
\* window, and one that has left it.
ApEntries ==
    [DXCall : ApDXCalls, DECall : ApDECalls, Frequency : {14074000}, Time : {ApNow}]
    \cup [DXCall : {"K1A8"}, DECall : {"W2BBB"}, Frequency : {14074000}, Time : {ApNow - 3}]

\* The configurations: correction on or off, the action on a CTY miss, and
\* the CTY database: not loaded, or loaded with the keys CtyKeys.
ApCfgSet ==
    [Enabled : BOOLEAN, InvalidAction : {"tag", "suppress"}, RecencySeconds : {2},
     MinConsensusReports : {2, 3}, MinAdvantage : {1}, MinConfidencePercent : {50},
     MaxEditDistance : {3}, ctyLoaded : BOOLEAN]

\* db.Keys of the CTY database: the prefix K1, so that K1AB and K1A8 are
\* known to it and K9Z8 is not.
CtyKeys == {<<"K", "1">>}
ApKnownCalls == {"K1AB"}

HasPrefix(s, prefix) == Len(prefix) <= Len(s) /\ SubSeq(s, 1, Len(prefix)) = prefix

\* ctyDB.LookupCallsign(cs): whether the database has an entry for the call
\* or for one of its prefixes (the calls here carry no /P-like suffix).
LookupCallsign(cs) == \E key \in CtyKeys : HasPrefix(CallChars[cs], key)

\* known.Contains(call)
knownContains(call) == call \in ApKnownCalls

callCorrectionWindow(cfg) == IF cfg.RecencySeconds <= 0 THEN 45 ELSE cfg.RecencySeconds

\* formatConfidence(percent, nReporters, known)
formatConfidenceStrictBounds(percent, nReporters, known) ==
    IF nReporters <= 1 THEN (IF known THEN "S" ELSE "?")
    ELSE IF percent < 25 THEN (IF known THEN "S" ELSE "?")
    ELSE IF percent < 75 THEN "P"
    ELSE "V"

formatConfidence(percent, nReporters, known) ==
    IF nReporters <= 1 THEN (IF known THEN "S" ELSE "?")
    ELSE LET value == IF percent < 0 THEN 0 ELSE IF percent > 100 THEN 100 ELSE percent
         IN IF value <= 25 THEN (IF known THEN "S" ELSE "?")
            ELSE IF value <= 75 THEN "P"
            ELSE "V"

\* strings.EqualFold, on the lower-case values the configuration takes.
EqualFold(a, b) == a = b

\* The 100 Hz frequency bucket of the index.
frequencyBucket(frequency) == frequency \div 100

\* CorrectionIndex.Candidates(spot, now, window): the entries inside the
\* window in the spot's frequency bucket or one next to it.
Candidates(index, s, now, window) ==
    {e \in index : /\ now - e.Time <= window
                   /\ Abs(frequencyBucket(e.Frequency) - frequencyBucket(s.Frequency)) <= 1}

\* CorrectionIndex.Add(spot, now, window)
indexAdd(index, entry, now, window) ==
    {e \in index : now - e.Time <= window} \cup {entry}

\* Lines 477-500 of maybeApplyCallCorrection: the spot's DX call and
\* confidence, and whether it is suppressed, from what SuggestCallCorrection
\* returned.
correctionOutcomeNeverSuppress(dxCall, cfg, res, known) ==
    LET base == formatConfidence(res.subjectConfidence, res.total, known)
    IN IF res.ok /\ cfg.ctyLoaded /\ LookupCallsign(res.call)
       THEN [DXCall |-> res.call, Confidence |-> "C", suppress |-> FALSE]
       ELSE IF res.ok
            THEN [DXCall |-> dxCall, Confidence |-> "C", suppress |-> FALSE]
            ELSE [DXCall |-> dxCall, Confidence |-> base, suppress |-> FALSE]

correctionOutcome(dxCall, cfg, res, known) ==
    LET base == formatConfidence(res.subjectConfidence, res.total, known)
    IN IF res.ok /\ cfg.ctyLoaded
       THEN IF LookupCallsign(res.call)
            THEN [DXCall |-> res.call, Confidence |-> "C", suppress |-> FALSE]
            ELSE IF EqualFold(cfg.InvalidAction, "suppress")
                 THEN [DXCall |-> dxCall, Confidence |-> base, suppress |-> TRUE]
                 ELSE [DXCall |-> dxCall, Confidence |-> "B", suppress |-> FALSE]
       ELSE IF res.ok /\ ~cfg.ctyLoaded
            THEN [DXCall |-> dxCall, Confidence |-> "C", suppress |-> FALSE]
            ELSE [DXCall |-> dxCall, Confidence |-> base, suppress |-> FALSE]

ApIdleLast == [acted |-> FALSE, spot |-> [DXCall |-> "", DECall |-> "", Mode |-> "",
                                          Frequency |-> 0, Time |-> 0],
               decided |-> FALSE, others |-> {}, res |-> SgIdleResult, known |-> FALSE,
               DXCall |-> "", Confidence |-> "", suppress |-> FALSE]

ApIdleCfg == [Enabled |-> TRUE, InvalidAction |-> "tag", RecencySeconds |-> 2,
              MinConsensusReports |-> 2, MinAdvantage |-> 1, MinConfidencePercent |-> 50,
              MaxEditDistance |-> 3, ctyLoaded |-> TRUE]

\* main creates the index only when correction is enabled.
ApInit ==
    /\ apCfg \in ApCfgSet
    /\ apIndex \in (IF apCfg.Enabled THEN SubsetsUpTo(ApEntries, MaxIndex) ELSE {{}})
    /\ apCalls = 0
    /\ apLast = ApIdleLast

ApIdle ==
    /\ apCfg = ApIdleCfg
    /\ apIndex = {}
    /\ apCalls = 0
    /\ apLast = ApIdleLast

\* The same lookup made after the spot's own entry went into the index.
othersAfterAdd(index, s, now, window) ==
    Candidates(indexAdd(index, [DXCall |-> s.DXCall, DECall |-> s.DECall,
                                Frequency |-> s.Frequency, Time |-> s.Time],
                        now, window),
               s, now, window)

\* others := idx.Candidates(spotEntry, now, window): the deferred idx.Add
\* has not run yet, so the lookup sees the index as the call found it.
others(index, s, now, window) == Candidates(index, s, now, window)

\* maybeApplyCallCorrection(spotEntry, idx, cfg, ctyDB, known)
maybeApplyCallCorrection(s, now) ==
    /\ apCalls' = apCalls + 1
    /\ UNCHANGED apCfg
    /\ IF ~IsCallCorrectionCandidate(s.Mode)
       THEN /\ apLast' = [ApIdleLast EXCEPT !.acted = TRUE, !.spot = s,
                                            !.DXCall = s.DXCall, !.Confidence = ""]
            /\ UNCHANGED apIndex
       ELSE IF ~apCfg.Enabled
       THEN /\ apLast' = [ApIdleLast EXCEPT !.acted = TRUE, !.spot = s,
                                            !.DXCall = s.DXCall, !.Confidence = "?"]
            /\ UNCHANGED apIndex
       ELSE LET window == callCorrectionWindow(apCfg)
                settings == [MinConsensusReports |-> apCfg.MinConsensusReports,
                             MinAdvantage |-> apCfg.MinAdvantage,
                             MinConfidencePercent |-> apCfg.MinConfidencePercent,
                             MaxEditDistance |-> apCfg.MaxEditDistance,
                             RecencyWindow |-> window,
                             Distance3ExtraAdvantage |-> 0,
                             Distance3ExtraConfidence |-> 0]
                cands == others(apIndex, s, now, window)
                known == knownContains(s.DXCall)
            IN \E res \in SuggestCallCorrection(s, cands, settings) :
                  LET out == correctionOutcome(s.DXCall, apCfg, res, known)
                  IN /\ apLast' = [acted |-> TRUE, spot |-> s, decided |-> TRUE,
                                   others |-> cands, res |-> res, known |-> known,
                                   DXCall |-> out.DXCall, Confidence |-> out.Confidence,
                                   suppress |-> out.suppress]
                     \* the deferred idx.Add(spotEntry, now, window)
                     /\ apIndex' = indexAdd(apIndex,
                                            [DXCall |-> out.DXCall, DECall |-> s.DECall,
                                             Frequency |-> s.Frequency, Time |-> s.Time],
                                            now, window)

ApApply == \E s \in ApSpots : apCalls < MaxApplyCalls /\ maybeApplyCallCorrection(s, ApNow)

(***************************************************************************)
(* The post-dedup pipeline                                                 *)
(*                                                                         *)
(* main starts processOutputSpots twice on the deduplicator's output       *)
(* channel: once before the telnet server exists (telnet and the           *)
(* correction index nil) and once after.  Both goroutines range over the   *)
(* same channel, so each spot is received by one of them.  One iteration   *)
(* of the loop is one step.  The FrequencyAverager (not among the sources) *)
(* is modelled as the list of the reports it holds.                        *)
(***************************************************************************)

\* Bounds: the spots the deduplicator emits, and the room in its output
\* channel.
MaxSpots == 3
PlOutCap == 2

\* What the deduplicator may emit: a CW fundamental and its weaker second
\* harmonic, two spotters each for two other spellings of the call, a spot
\* older than the age gate allows, and two reports of one signal 0.6 kHz
\* apart (their mean is 0.3 kHz from each).
PlSpots ==
    {[DXCall |-> "K1AB", DECall |-> "W1AAA", Mode |-> "CW", Frequency |-> 7011000,
      Report |-> 20, Time |-> ApNow],
     [DXCall |-> "K1AB", DECall |-> "W2BBB", Mode |-> "CW", Frequency |-> 14022020,
      Report |-> 10, Time |-> ApNow],
     [DXCall |-> "K9Z8", DECall |-> "W2BBB", Mode |-> "CW", Frequency |-> 7011000,
      Report |-> 20, Time |-> ApNow],
     [DXCall |-> "K9Z8", DECall |-> "W3CCC", Mode |-> "CW", Frequency |-> 7011000,
      Report |-> 20, Time |-> ApNow],
     [DXCall |-> "K1A8", DECall |-> "W2BBB", Mode |-> "CW", Frequency |-> 7011000,
      Report |-> 20, Time |-> ApNow],
     [DXCall |-> "K1A8", DECall |-> "W3CCC", Mode |-> "CW", Frequency |-> 7011000,
      Report |-> 20, Time |-> ApNow],
     [DXCall |-> "K1AB", DECall |-> "W3CCC", Mode |-> "CW", Frequency |-> 7011000,
      Report |-> 20, Time |-> ApNow - 10],
     [DXCall |-> "K1AB", DECall |-> "W1AAA", Mode |-> "CW", Frequency |-> 14074600,
      Report |-> 20, Time |-> ApNow],
     [DXCall |-> "K1AB", DECall |-> "W2BBB", Mode |-> "CW", Frequency |-> 14074000,
      Report |-> 20, Time |-> ApNow]}

\* config.SpotPolicy
spotPolicy == [MaxAgeSeconds |-> 5, FrequencyAveragingSeconds |-> 0,
               FrequencyAveragingToleranceHz |-> 0, FrequencyAveragingMinReports |-> 2]

frequencyAverageWindow(policy) ==
    IF policy.FrequencyAveragingSeconds <= 0 THEN 45 ELSE policy.FrequencyAveragingSeconds

frequencyAverageTolerance(policy) ==
    IF policy.FrequencyAveragingToleranceHz <= 0 THEN 300
    ELSE policy.FrequencyAveragingToleranceHz

shouldAverageFrequency(s) == s.Mode \in {"CW", "RTTY"}

RECURSIVE sumFrequencies(_)
sumFrequencies(entries) ==
    IF entries = <<>> THEN 0 ELSE Head(entries).Frequency + sumFrequencies(Tail(entries))

\* The reports FrequencyAverager.Average keeps for the call: those inside the
\* window, and the new one.
averagerReports(entries, call, frequency, now, window) ==
    LET inWindow(e) == now - e.Time <= window
    IN Append(SelectSeq(entries, inWindow),
              [DXCall |-> call, Frequency |-> frequency, Time |-> now])

\* math.Round(avg*10)/10 of the mean of the call's reports: the mean rounded
\* to 100 Hz, halves away from zero.
roundedAverage(entries, call) ==
    LET ofCall(e) == e.DXCall = call
        mine == SelectSeq(entries, ofCall)
        n == Len(mine)
    IN ((2 * sumFrequencies(mine) + 100 * n) \div (200 * n)) * 100

reportCount(entries, call) ==
    LET ofCall(e) == e.DXCall = call
    IN Len(SelectSeq(entries, ofCall))

\* The frequencies are float64 numbers of kHz in the code.  A frequency of
\* hz Hz is held as the double nearest to hz/1000; the operators below give
\* that double's binary exponent and its distance from hz/1000.

RECURSIVE pow2(_)
pow2(n) == IF n = 0 THEN 1 ELSE 2 * pow2(n - 1)

\* 2^n modulo 1000, without forming 2^n.
RECURSIVE pow2Mod1000(_)
pow2Mod1000(n) == IF n = 0 THEN 1 ELSE (2 * pow2Mod1000(n - 1)) % 1000

\* The exponent e with 2^e <= hz/1000 < 2^(e+1).
RECURSIVE float64Exponent(_, _)
float64Exponent(hz, e) ==
    IF hz >= 1000
    THEN IF pow2(e + 1) * 1000 <= hz THEN float64Exponent(hz, e + 1) ELSE e
    ELSE IF hz * pow2(-e) >= 1000 THEN e ELSE float64Exponent(hz, e - 1)

\* The double nearest to hz/1000, minus hz/1000, in thousandths of the
\* double's unit in the last place (2^(e-52)).
float64Error(hz) ==
    LET e == float64Exponent(hz, 0)
        r == ((hz % 1000) * pow2Mod1000(52 - e)) % 1000
    IN IF r < 500 THEN -r ELSE 1000 - r

\* math.Abs(a - b) >= tolerance on the doubles of a, b and tolerance (in
\* Hz, a and b at least 100 kHz): the subtraction of the two doubles is
\* exact, so when a and b are exactly the tolerance apart the answer is
\* decided by their representation errors.
absDiffAtLeast(a, b, tolerance) ==
    IF Abs(a - b) # tolerance THEN Abs(a - b) > tolerance
    ELSE LET scaled(hz) == float64Error(hz) * pow2(float64Exponent(hz, 0) - 6)
             excess == IF a > b THEN scaled(a) - scaled(b) ELSE scaled(b) - scaled(a)
         IN IF excess # 0 THEN excess > 0 ELSE float64Error(tolerance) <= 0

\* The spot pointers that were handed to BroadcastSpot; the number of times
\* one was.
broadcastCount(id) == Cardinality({i \in DOMAIN plBroadcast : plBroadcast[i] = id})

PlApCfgSet == {c \in ApCfgSet : c.Enabled /\ c.ctyLoaded /\ c.MinConsensusReports = 2}

PlInit ==
    /\ plOut = <<>>
    /\ plEmitted = <<>>
    /\ plAvg = <<>>
    /\ plDone = <<>>
    /\ plBuffer = <<>>
    /\ plBroadcast = <<>>

PlIdle == PlInit

\* The state of the stages when the pipeline starts: main's configuration,
\* an empty correction index and an empty harmonic detector.
PlStagesInit ==
    /\ apCfg \in PlApCfgSet
    /\ apIndex = {}
    /\ apCalls = 0
    /\ apLast = ApIdleLast
    /\ HdIdle

\* The deduplicator emits a spot it has not emitted before on its output
\* channel.
PlEmit ==
    \E s \in PlSpots :
        /\ Len(plEmitted) < MaxSpots
        /\ Len(plOut) < PlOutCap
        /\ \A i \in DOMAIN plEmitted : plEmitted[i] # s
        /\ plEmitted' = Append(plEmitted, s)
        /\ plOut' = Append(plOut, [id |-> Len(plEmitted) + 1, spot |-> s])
        /\ UNCHANGED <<plAvg, plDone, plBuffer, plBroadcast, hdVars, apVars>>

\* `continue`: the spot reaches no later stage of this iteration; it is
\* neither stored in the ring buffer nor broadcast.
skipRestFallThrough(id) == plBuffer' = Append(plBuffer, id) /\ UNCHANGED plBroadcast
skipRest(id) == UNCHANGED <<plBuffer, plBroadcast>>

\* One iteration of the loop of processOutputSpots(..., telnet, ...,
\* correctionIdx, ...): hasTelnet says whether telnet is non-nil; the
\* correction index is non-nil exactly when it is.
processOutputSpots(goroutine, hasTelnet) ==
    /\ plOut # <<>>
    /\ plOut' = Tail(plOut)
    /\ UNCHANGED plEmitted
    /\ LET id == Head(plOut).id
           s == Head(plOut).spot
           now == ApNow
           record(stale, suppress, harmonic, final, reports, rounded) ==
               [id |-> id, by |-> goroutine, received |-> s, stale |-> stale,
                suppress |-> suppress, harmonic |-> harmonic, spot |-> final,
                reports |-> reports, rounded |-> rounded]
           done(stale, suppress, harmonic, final) ==
               record(stale, suppress, harmonic, final, 0, 0)
       IN IF spotPolicy.MaxAgeSeconds > 0 /\ now - s.Time > spotPolicy.MaxAgeSeconds
          THEN /\ plDone' = Append(plDone, done(TRUE, FALSE, FALSE, s))
               /\ skipRest(id)
               /\ UNCHANGED <<plAvg, hdVars, apVars>>
          ELSE /\ IF hasTelnet
                  THEN maybeApplyCallCorrection(s, now)
                  ELSE UNCHANGED apVars
               /\ LET suppress == hasTelnet /\ apLast'.suppress
                      corrected == IF hasTelnet
                                   THEN [s EXCEPT !.DXCall = apLast'.DXCall]
                                   ELSE s
                  IN IF suppress
                     THEN /\ plDone' = Append(plDone, done(FALSE, TRUE, FALSE, corrected))
                          /\ skipRest(id)
                          /\ UNCHANGED <<plAvg, hdVars>>
                     ELSE /\ UNCHANGED hdNow
                          /\ ShouldDrop(corrected, now)
                          /\ IF hdLast'.drop
                             THEN /\ plDone' = Append(plDone,
                                                      done(FALSE, FALSE, TRUE, corrected))
                                  /\ skipRest(id)
                                  /\ UNCHANGED plAvg
                             ELSE LET window == frequencyAverageWindow(spotPolicy)
                                      tolerance == frequencyAverageTolerance(spotPolicy)
                                      entries ==
                                          IF shouldAverageFrequency(corrected)
                                          THEN averagerReports(plAvg, corrected.DXCall,
                                                               corrected.Frequency, now, window)
                                          ELSE plAvg
                                      rounded == roundedAverage(entries, corrected.DXCall)
                                      reports == reportCount(entries, corrected.DXCall)
                                      final ==
                                          IF /\ shouldAverageFrequency(corrected)
                                             /\ reports >= spotPolicy.FrequencyAveragingMinReports
                                             /\ absDiffAtLeast(rounded, corrected.Frequency,
                                                               tolerance)
                                          THEN [corrected EXCEPT !.Frequency = rounded]
                                          ELSE corrected
                                  IN /\ plAvg' = entries
                                     /\ plDone' = Append(plDone,
                                            IF shouldAverageFrequency(corrected)
                                            THEN record(FALSE, FALSE, FALSE, final,
                                                        reports, rounded)
                                            ELSE done(FALSE, FALSE, FALSE, final))
                                     /\ plBuffer' = Append(plBuffer, id)
                                     /\ plBroadcast' = IF hasTelnet
                                                       THEN Append(plBroadcast, id)
                                                       ELSE plBroadcast

\* The goroutine main starts before the telnet server exists (main.go line 97).
PlProcessEarly == processOutputSpots(1, FALSE)

\* The goroutine main starts once the telnet server runs (main.go line 120).
PlProcessWired == processOutputSpots(2, TRUE)

(***************************************************************************)
(* dedup.Deduplicator                                                      *)
(*                                                                         *)
(* dedup/deduplicator.go is not among the sources: the worker is modelled  *)
(* from its documented contract.  One worker drains the input channel; for *)
(* each spot it looks the fingerprint up in its cache, drops and counts a  *)
(* duplicate, and otherwise remembers the fingerprint and sends the spot   *)
(* on the bounded output channel, dropping it when the channel is full.    *)
(* The output channel is plOut, the channel processOutputSpots reads.      *)
(***************************************************************************)

\* Bounds: the spots that arrive, and the ticks of the clock.
MaxArrivals == 3
MaxDdTime == 3

\* cfg.Dedup.ClusterWindowSeconds, in ticks.
DdWindow == 2

\* The spots that may arrive at time now: 7011.00 and 7011.04 kHz round to
\* the same 0.1 kHz, 7011.06 kHz does not; a spot is stamped now, or one tick
\* earlier when it arrives late.
DdSpots(now) ==
    {s \in [DXCall : {"K1AB"}, DECall : {"W1AAA"}, Mode : {"CW"},
            Frequency : {7011000, 7011040, 7011060}, Report : {20}, Time : {now}]
        \cup [DXCall : {"K1AB"}, DECall : {"W1AAA"}, Mode : {"CW"},
              Frequency : {7011040}, Report : {20}, Time : {now - 1}]
        \cup [DXCall : {"K1AB"}, DECall : {"W2BBB"}, Mode : {"CW"},
              Frequency : {7011000}, Report : {20}, Time : {now}] :
        s.Time >= 0}

\* round(Frequency * 10) / 10 kHz: the frequency rounded to 100 Hz.
roundFrequency(frequency) == ((frequency + 50) \div 100) * 100

\* The fingerprint of a spot.
fingerprintExactFrequency(s, window) ==
    <<s.DXCall, s.DECall, s.Mode, s.Frequency, s.Time \div window>>

fingerprint(s, window) ==
    <<s.DXCall, s.DECall, s.Mode, roundFrequency(s.Frequency), s.Time \div window>>

DdIdleStats == [processed |-> 0, duplicates |-> 0]

DdInit ==
    /\ ddCache = {}
    /\ ddNow = 0
    /\ ddStats = DdIdleStats
    /\ ddLog = <<>>

DdIdle == DdInit

\* The cache entry of a fingerprint, if it has one.
cacheEntries(fp) == {e \in ddCache : e.fp = fp}

\* The worker takes one spot from the input channel.
processSpot(s) ==
    LET fp == fingerprint(s, DdWindow)
        seen == {e \in cacheEntries(fp) : ddNow - e.at <= DdWindow}
        arrival(outcome) == [spot |-> s, at |-> ddNow, outcome |-> outcome]
    IN /\ UNCHANGED ddNow
       /\ IF seen # {}
          THEN /\ ddStats' = [processed |-> ddStats.processed + 1,
                              duplicates |-> ddStats.duplicates + 1]
               /\ ddLog' = Append(ddLog, arrival("duplicate"))
               /\ UNCHANGED <<ddCache, plOut>>
          ELSE /\ ddStats' = [ddStats EXCEPT !.processed = @ + 1]
               /\ ddCache' = (ddCache \ cacheEntries(fp)) \cup {[fp |-> fp, at |-> ddNow]}
               /\ IF Len(plOut) < PlOutCap
                  THEN /\ plOut' = Append(plOut, [id |-> Len(ddLog) + 1, spot |-> s])
                       /\ ddLog' = Append(ddLog, arrival("emitted"))
                  ELSE /\ ddLog' = Append(ddLog, arrival("dropped"))
                       /\ UNCHANGED plOut

DdProcess ==
    \E s \in DdSpots(ddNow) :
        /\ Len(ddLog) < MaxArrivals
        /\ processSpot(s)

\* The periodic cleanup: the entries older than the window are evicted.
DdCleanup ==
    /\ \E e \in ddCache : ddNow - e.at > DdWindow
    /\ ddCache' = {e \in ddCache : ddNow - e.at <= DdWindow}
    /\ UNCHANGED <<ddNow, ddStats, ddLog, plOut>>

DdTick ==
    /\ ddNow < MaxDdTime
    /\ ddNow' = ddNow + 1
    /\ UNCHANGED <<ddCache, ddStats, ddLog, plOut>>

\* A processOutputSpots goroutine receives the next spot from the output
\* channel.
DdReceive ==
    /\ plOut # <<>>
    /\ plOut' = Tail(plOut)
    /\ UNCHANGED ddVars

(***************************************************************************)
(* dedup.SecondaryDeduper                                                  *)
(*                                                                         *)
(* dedup/secondary.go is not among the sources: the deduper is modelled    *)
(* from its documented contract and from dedup/secondary_test.go.  It      *)
(* keeps, per source class and key, the time of the last spot it           *)
(* forwarded; the class of a spot is spot.IsSkimmerSource of its source    *)
(* type.  Spots reach it stamped with the current time.                    *)
(***************************************************************************)

\* Bounds: the calls of ShouldForward, and the ticks of the clock.
MaxForwardCalls == 3
MaxSdTime == 3

\* The window NewSecondaryDeduper is given, in ticks.
SdWindow == 2

\* The spots handed to ShouldForward: one signal from five kinds of source,
\* and a second signal from two of them.
SdSpots ==
    [DXCall : {"K1AB"}, DECall : {"W1AAA"}, Mode : {"FT8"}, Frequency : {14074000},
     SourceType : {"RBN", "FT8", "PSKReporter", "Manual", "Upstream"}]
    \cup [DXCall : {"K9Z8"}, DECall : {"W1AAA"}, Mode : {"FT8"}, Frequency : {14074000},
          SourceType : {"RBN", "Manual"}]

\* spot.IsSkimmerSource(source)
IsSkimmerSourceAny(source) == TRUE

IsSkimmerSource(source) ==
    CASE source \in {"RBN", "FT8", "FT4", "PSKReporter"} -> TRUE
      [] OTHER -> FALSE

\* The key of a spot inside its class.
secondaryKey(s) == <<s.DXCall, s.DECall, s.Mode, s.Frequency>>

SdInit ==
    /\ sdSeen = {}
    /\ sdNow = 0
    /\ sdLog = <<>>

SdIdle == SdInit

\* SecondaryDeduper.ShouldForward(s), for a spot stamped sdNow.
ShouldForward(s) ==
    LET skimmer == IsSkimmerSource(s.SourceType)
        key == secondaryKey(s)
        mine == {e \in sdSeen : e.skimmer = skimmer /\ e.key = key}
        recent == {e \in mine : sdNow - e.at < SdWindow}
        forward == recent = {}
    IN /\ sdLog' = Append(sdLog, [spot |-> s, at |-> sdNow, forward |-> forward])
       /\ sdSeen' = IF forward
                    THEN (sdSeen \ mine) \cup {[skimmer |-> skimmer, key |-> key, at |-> sdNow]}
                    ELSE sdSeen
       /\ UNCHANGED sdNow

SdShouldForward ==
    \E s \in SdSpots :
        /\ Len(sdLog) < MaxForwardCalls
        /\ ShouldForward(s)

SdTick ==
    /\ sdNow < MaxSdTime
    /\ sdNow' = sdNow + 1
    /\ UNCHANGED <<sdSeen, sdLog>>

(***************************************************************************)
(* Ingest: the line parser (rbn/client.go), the PC11/PC61 frame conversion *)
(* (peer/parse.go) and mode normalization (spot/mode_alloc.go).            *)
(*                                                                         *)
(* A Go string is a sequence of one-character strings.  A float64 is a     *)
(* record [nan, v]: v is the value in tenths (a frequency in tenths of a   *)
(* kHz); the numeric tokens of the inputs carry at most one fractional     *)
(* digit, so v is exact.                                                   *)
(***************************************************************************)

Digits == <<"0", "1", "2", "3", "4", "5", "6", "7", "8", "9">>
LowerLetters == <<"a", "b", "c", "d", "e", "f", "g", "h", "i", "j", "k", "l", "m",
                  "n", "o", "p", "q", "r", "s", "t", "u", "v", "w", "x", "y", "z">>
UpperLetters == <<"A", "B", "C", "D", "E", "F", "G", "H", "I", "J", "K", "L", "M",
                  "N", "O", "P", "Q", "R", "S", "T", "U", "V", "W", "X", "Y", "Z">>

DigitSet == {Digits[i] : i \in 1..10}
UpperSet == {UpperLetters[i] : i \in 1..26}
LowerSet == {LowerLetters[i] : i \in 1..26}
UpperOf == [c \in LowerSet |-> UpperLetters[CHOOSE k \in 1..26 : LowerLetters[k] = c]]
LowerOf == [c \in UpperSet |-> LowerLetters[CHOOSE k \in 1..26 : UpperLetters[k] = c]]

IsDigit(c) == c \in DigitSet
DigitValue(c) == (CHOOSE i \in 1..10 : Digits[i] = c) - 1
IsLetter(c) == c \in UpperSet \/ c \in LowerSet

\* strings.ToUpper, strings.ToLower
ToUpper(s) == [i \in 1..Len(s) |-> IF s[i] \in LowerSet THEN UpperOf[s[i]] ELSE s[i]]
ToLower(s) == [i \in 1..Len(s) |-> IF s[i] \in UpperSet THEN LowerOf[s[i]] ELSE s[i]]

\* strings.Trim(s, cutset): cutset is a set of characters.
RECURSIVE TrimLeft(_, _)
TrimLeft(s, cutset) ==
    IF s # <<>> /\ s[1] \in cutset THEN TrimLeft(Tail(s), cutset) ELSE s
RECURSIVE TrimRight(_, _)
TrimRight(s, cutset) ==
    IF s # <<>> /\ s[Len(s)] \in cutset THEN TrimRight(SubSeq(s, 1, Len(s) - 1), cutset) ELSE s
Trim(s, cutset) == TrimRight(TrimLeft(s, cutset), cutset)
TrimSpace(s) == Trim(s, {" ", "\t", "\r", "\n"})

HasSuffix(s, suffix) ==
    Len(suffix) <= Len(s) /\ SubSeq(s, Len(s) - Len(suffix) + 1, Len(s)) = suffix

\* strings.IndexByte(s, c), counted from 1; 0 when c does not occur.
IndexByte(s, c) ==
    IF \E i \in 1..Len(s) : s[i] = c THEN CHOOSE i \in 1..Len(s) : s[i] = c /\ \A j \in 1..(i - 1) : s[j] # c
    ELSE 0

\* isAllDigits(s)
isAllDigits(s) == s # <<>> /\ \A i \in 1..Len(s) : IsDigit(s[i])

\* The value of a sequence of decimal digits.
RECURSIVE digitsValue(_)
digitsValue(s) ==
    IF s = <<>> THEN 0 ELSE digitsValue(SubSeq(s, 1, Len(s) - 1)) * 10 + DigitValue(s[Len(s)])

\* strconv.Atoi(s): an optional sign and decimal digits.
Atoi(s) ==
    LET signed == s # <<>> /\ s[1] \in {"+", "-"}
        body == IF signed THEN Tail(s) ELSE s
    IN IF isAllDigits(body)
       THEN [ok |-> TRUE, v |-> IF signed /\ s[1] = "-" THEN -digitsValue(body) ELSE digitsValue(body)]
       ELSE [ok |-> FALSE, v |-> 0]

Float(tenths) == [nan |-> FALSE, v |-> tenths]
NaN == [nan |-> TRUE, v |-> 0]

\* float64 comparisons: every comparison with NaN is false.
FloatLess(a, b) == ~a.nan /\ ~b.nan /\ a.v < b.v
FloatGreater(a, b) == ~a.nan /\ ~b.nan /\ a.v > b.v
FloatAtLeast(a, b) == ~a.nan /\ ~b.nan /\ a.v >= b.v
FloatAtMost(a, b) == ~a.nan /\ ~b.nan /\ a.v <= b.v

\* strconv.ParseFloat(s, 64) on the decimal forms [sign] digits [. digits]
\* and on "nan" in any letter case.
ParseFloat(s) ==
    IF ToLower(s) = <<"n", "a", "n">> THEN [ok |-> TRUE, f |-> NaN]
    ELSE LET signed == s # <<>> /\ s[1] \in {"+", "-"}
             body == IF signed THEN Tail(s) ELSE s
             dot == IndexByte(body, ".")
             whole == IF dot = 0 THEN body ELSE SubSeq(body, 1, dot - 1)
             frac == IF dot = 0 THEN <<>> ELSE SubSeq(body, dot + 1, Len(body))
             wellFormed == /\ \A i \in 1..Len(whole) : IsDigit(whole[i])
                           /\ \A i \in 1..Len(frac) : IsDigit(frac[i])
                           /\ Len(whole) + Len(frac) > 0
             tenths == digitsValue(whole) * 10 + (IF frac = <<>> THEN 0 ELSE DigitValue(frac[1]))
         IN IF wellFormed
            THEN [ok |-> TRUE, f |-> Float(IF signed /\ s[1] = "-" THEN -tenths ELSE tenths)]
            ELSE [ok |-> FALSE, f |-> Float(0)]

minRBNDialFrequencyKHz == Float(1000)
maxRBNDialFrequencyKHz == Float(30000000)

\* parseFrequencyCandidate(tok)
parseFrequencyCandidate(tok) ==
    IF tok = <<>> THEN [ok |-> FALSE, f |-> Float(0)]
    ELSE LET p == ParseFloat(tok)
         IN IF ~p.ok THEN [ok |-> FALSE, f |-> Float(0)]
            ELSE IF FloatLess(p.f, minRBNDialFrequencyKHz) \/ FloatGreater(p.f, maxRBNDialFrequencyKHz)
                 THEN [ok |-> FALSE, f |-> Float(0)]
                 ELSE p

\* parseSignedInt(tok) of rbn/client.go
parseSignedInt(tok) ==
    IF tok = <<>> \/ IndexByte(tok, ".") # 0 THEN [ok |-> FALSE, v |-> 0]
    ELSE LET a == Atoi(tok)
         IN IF ~a.ok \/ a.v < -200 \/ a.v > 200 THEN [ok |-> FALSE, v |-> 0] ELSE a

\* parseInlineSNR(tok)
parseInlineSNR(tok) ==
    LET lower == ToLower(TrimSpace(tok))
    IN IF ~HasSuffix(lower, <<"d", "b">>) THEN [ok |-> FALSE, v |-> 0]
       ELSE LET numStr == SubSeq(lower, 1, Len(lower) - 2)
            IN IF IndexByte(numStr, ".") # 0 \/ numStr = <<>> THEN [ok |-> FALSE, v |-> 0]
               ELSE LET a == Atoi(numStr)
                    IN IF ~a.ok \/ a.v < -200 \/ a.v > 200 THEN [ok |-> FALSE, v |-> 0] ELSE a

\* isTimeToken(tok)
isTimeToken(tok) ==
    Len(tok) = 5 /\ tok[5] = "Z" /\ \A i \in 1..4 : IsDigit(tok[i])

\* peelTimePrefix(tok): the time prefix (empty when there is none) and the rest.
peelTimePrefix(tok) ==
    IF Len(tok) < 5 THEN [ts |-> <<>>, rest |-> tok]
    ELSE IF isTimeToken(SubSeq(tok, 1, 5))
         THEN [ts |-> SubSeq(tok, 1, 5), rest |-> TrimSpace(SubSeq(tok, 6, Len(tok)))]
         ELSE [ts |-> <<>>, rest |-> tok]

\* ---- mode normalization (spot/mode_alloc.go) ----

Str(text) ==
    CASE text = "" -> <<>>
      [] text = "CW" -> <<"C", "W">>
      [] text = "CWT" -> <<"C", "W", "T">>
      [] text = "RTTY" -> <<"R", "T", "T", "Y">>
      [] text = "FT8" -> <<"F", "T", "8">>
      [] text = "FT-8" -> <<"F", "T", "-", "8">>
      [] text = "FT4" -> <<"F", "T", "4">>
      [] text = "FT-4" -> <<"F", "T", "-", "4">>
      [] text = "MSK" -> <<"M", "S", "K">>
      [] text = "MSK144" -> <<"M", "S", "K", "1", "4", "4">>
      [] text = "MSK-144" -> <<"M", "S", "K", "-", "1", "4", "4">>
      [] text = "USB" -> <<"U", "S", "B">>
      [] text = "LSB" -> <<"L", "S", "B">>
      [] text = "SSB" -> <<"S", "S", "B">>
      [] text = "AM" -> <<"A", "M">>
      [] text = "FM" -> <<"F", "M">>
      [] text = "DX" -> <<"D", "X">>
      [] text = "DE" -> <<"D", "E">>
      [] text = "DB" -> <<"D", "B">>
      [] text = "WPM" -> <<"W", "P", "M">>

\* The band table of mode_allocations.yaml: bounds in tenths of a kHz.
ModeAllocTables ==
    { <<>>,
      << [LowerKHz |-> Float(35000), CWEndKHz |-> Float(36000), UpperKHz |-> Float(40000),
          VoiceMode |-> <<"l", "s", "b">>],
         [LowerKHz |-> Float(140000), CWEndKHz |-> Float(140700), UpperKHz |-> Float(143500),
          VoiceMode |-> <<" ", "s", "s", "b">>],
         [LowerKHz |-> Float(280000), CWEndKHz |-> Float(0), UpperKHz |-> Float(297000),
          VoiceMode |-> <<" ">>] >> }

\* GuessModeFromAlloc(freqKHz), over the loaded table.
RECURSIVE GuessModeFromAlloc(_, _)
GuessModeFromAlloc(modeAlloc, freqKHz) ==
    IF modeAlloc = <<>> THEN <<>>
    ELSE LET b == Head(modeAlloc)
         IN IF FloatAtLeast(freqKHz, b.LowerKHz) /\ FloatAtMost(freqKHz, b.UpperKHz)
               /\ FloatGreater(b.CWEndKHz, Float(0)) /\ FloatAtMost(freqKHz, b.CWEndKHz)
            THEN Str("CW")
            ELSE IF FloatAtLeast(freqKHz, b.LowerKHz) /\ FloatAtMost(freqKHz, b.UpperKHz)
                    /\ TrimSpace(b.VoiceMode) # <<>>
                 THEN ToUpper(TrimSpace(b.VoiceMode))
                 ELSE GuessModeFromAlloc(Tail(modeAlloc), freqKHz)

\* NormalizeVoiceMode(mode, freqKHz)
NormalizeVoiceModeKeepSSB(mode, freqKHz) == ToUpper(TrimSpace(mode))
NormalizeVoiceMode(mode, freqKHz) ==
    LET upper == ToUpper(TrimSpace(mode))
    IN IF upper = Str("SSB")
       THEN (IF FloatAtLeast(freqKHz, Float(100000)) THEN Str("USB") ELSE Str("LSB"))
       ELSE upper

\* FinalizeMode(mode, freq)
FinalizeMode(modeAlloc, mode, freq) ==
    LET m == NormalizeVoiceMode(mode, freq)
        alloc == GuessModeFromAlloc(modeAlloc, freq)
    IN IF m # <<>> THEN m
       ELSE IF alloc # <<>> THEN NormalizeVoiceMode(alloc, freq)
       ELSE IF FloatAtLeast(freq, Float(100000)) THEN Str("USB")
       ELSE Str("CW")

\* ---- the line parser (rbn/client.go) ----

\* guessModeFromAlloc, normalizeVoiceMode, finalizeMode: the client's own copies.
RECURSIVE guessModeFromAlloc(_, _)
guessModeFromAlloc(modeAlloc, freqKHz) ==
    IF modeAlloc = <<>> THEN <<>>
    ELSE LET b == Head(modeAlloc)
         IN IF FloatAtLeast(freqKHz, b.LowerKHz) /\ FloatAtMost(freqKHz, b.UpperKHz)
               /\ FloatGreater(b.CWEndKHz, Float(0)) /\ FloatAtMost(freqKHz, b.CWEndKHz)
            THEN Str("CW")
            ELSE IF FloatAtLeast(freqKHz, b.LowerKHz) /\ FloatAtMost(freqKHz, b.UpperKHz)
                    /\ TrimSpace(b.VoiceMode) # <<>>
                 THEN ToUpper(TrimSpace(b.VoiceMode))
                 ELSE guessModeFromAlloc(Tail(modeAlloc), freqKHz)

normalizeVoiceMode(mode, freqKHz) ==
    LET upper == ToUpper(TrimSpace(mode))
    IN IF upper = Str("SSB")
       THEN (IF FloatAtLeast(freqKHz, Float(100000)) THEN Str("USB") ELSE Str("LSB"))
       ELSE upper

finalizeMode(modeAlloc, mode, freq) ==
    LET m == normalizeVoiceMode(mode, freq)
        alloc == guessModeFromAlloc(modeAlloc, freq)
    IN IF m # <<>> THEN m
       ELSE IF alloc # <<>> THEN normalizeVoiceMode(alloc, freq)
       ELSE IF FloatAtLeast(freq, Float(100000)) THEN Str("USB")
       ELSE Str("CW")

\* keywordPatterns
keywordPatterns ==
    { [word |-> Str("DX"), kind |-> "acTokenDX", mode |-> <<>>],
      [word |-> Str("DE"), kind |-> "acTokenDE", mode |-> <<>>],
      [word |-> Str("DB"), kind |-> "acTokenDB", mode |-> <<>>],
      [word |-> Str("WPM"), kind |-> "acTokenWPM", mode |-> <<>>],
      [word |-> Str("CW"), kind |-> "acTokenMode", mode |-> Str("CW")],
      [word |-> Str("CWT"), kind |-> "acTokenMode", mode |-> Str("CW")],
      [word |-> Str("RTTY"), kind |-> "acTokenMode", mode |-> Str("RTTY")],
      [word |-> Str("FT8"), kind |-> "acTokenMode", mode |-> Str("FT8")],
      [word |-> Str("FT-8"), kind |-> "acTokenMode", mode |-> Str("FT8")],
      [word |-> Str("FT4"), kind |-> "acTokenMode", mode |-> Str("FT4")],
      [word |-> Str("FT-4"), kind |-> "acTokenMode", mode |-> Str("FT4")],
      [word |-> Str("MSK"), kind |-> "acTokenMode", mode |-> Str("MSK144")],
      [word |-> Str("MSK144"), kind |-> "acTokenMode", mode |-> Str("MSK144")],
      [word |-> Str("MSK-144"), kind |-> "acTokenMode", mode |-> Str("MSK144")],
      [word |-> Str("USB"), kind |-> "acTokenMode", mode |-> Str("USB")],
      [word |-> Str("LSB"), kind |-> "acTokenMode", mode |-> Str("LSB")],
      [word |-> Str("SSB"), kind |-> "acTokenMode", mode |-> Str("SSB")] }

acTokenUnknown == [word |-> <<>>, kind |-> "acTokenUnknown", mode |-> <<>>]

\* classifyTokenWithFallback(matchIndex, tok): the pattern whose word spans
\* the whole upper-cased token, if there is one.
classifyTokenWithFallback(upper) ==
    IF \E pat \in keywordPatterns : pat.word = upper
    THEN CHOOSE pat \in keywordPatterns : pat.word = upper
    ELSE acTokenUnknown

\* tokenizeSpotLine: the clean form of a raw token.
cleanToken(raw) == Trim(raw, {",", ";", ":", "!", "."})

\* spot.IsValidCallsign(call): upper-case, 3 to 10 characters of A-Z, 0-9,
\* "/" and "-", with a digit and a letter among them.
IsValidCallsign(call) ==
    /\ Len(call) >= 3 /\ Len(call) <= 10
    /\ \A i \in 1..Len(call) :
          \/ IsDigit(call[i])
          \/ call[i] \in UpperSet
          \/ call[i] \in {"/", "-"}
    /\ \E i \in 1..Len(call) : IsDigit(call[i])
    /\ \E i \in 1..Len(call) : call[i] \in UpperSet

\* spot.NormalizeCallsign(call): upper-case and trimmed.
NormalizeCallsign(call) == ToUpper(TrimSpace(call))

\* The last index of c in s; 0 when c does not occur.
LastIndexByte(s, c) ==
    IF \E i \in 1..Len(s) : s[i] = c THEN CHOOSE i \in 1..Len(s) : s[i] = c /\ \A j \in (i + 1)..Len(s) : s[j] # c
    ELSE 0

\* normalizeRBNCallsign(call)
normalizeRBNCallsign(call) ==
    IF ~HasSuffix(call, <<"-", "#">>) THEN NormalizeCallsign(call)
    ELSE LET withoutHash == SubSeq(call, 1, Len(call) - 2)
             last == LastIndexByte(withoutHash, "-")
         IN IF last > 0 THEN SubSeq(withoutHash, 1, last - 1) \o <<"-", "#">> ELSE call

\* extractCallAndFreq(tok): the spotter token, with the frequency glued to it.
extractCallAndFreq(raw) ==
    IF cleanToken(raw) = <<>> THEN [call |-> <<>>, f |-> Float(0), ok |-> FALSE]
    ELSE LET colonIdx == IndexByte(raw, ":")
         IN IF colonIdx = 0 THEN [call |-> cleanToken(raw), f |-> Float(0), ok |-> FALSE]
            ELSE LET callPart == TrimSpace(SubSeq(raw, 1, colonIdx - 1))
                     remainder == TrimSpace(Trim(SubSeq(raw, colonIdx + 1, Len(raw)), {",", ";", ":"}))
                     p == parseFrequencyCandidate(remainder)
                 IN [call |-> callPart, f |-> p.f, ok |-> p.ok]

\* strings.Join(parts, " ")
RECURSIVE JoinSpace(_)
JoinSpace(parts) ==
    IF parts = <<>> THEN <<>>
    ELSE IF Len(parts) = 1 THEN parts[1]
    ELSE parts[1] \o <<" ">> \o JoinSpace(Tail(parts))

\* snrPattern, (?i)([-+]?\d{1,3})\s*dB, matched at position i of text: the
\* number of digits the match takes (0 when there is no match at i).
RECURSIVE skipSpaces(_, _)
skipSpaces(text, j) ==
    IF j <= Len(text) /\ text[j] \in {" ", "\t", "\n", "\r", "\f"} THEN skipSpaces(text, j + 1) ELSE j

snrDigitsAt(text, i) ==
    LET j == IF i <= Len(text) /\ text[i] \in {"+", "-"} THEN i + 1 ELSE i
        fits(n) ==
            /\ j + n - 1 <= Len(text)
            /\ \A k \in j..(j + n - 1) : IsDigit(text[k])
            /\ LET d == skipSpaces(text, j + n)
               IN d + 1 <= Len(text) /\ text[d] \in {"d", "D"} /\ text[d + 1] \in {"b", "B"}
    IN IF fits(3) THEN 3 ELSE IF fits(2) THEN 2 ELSE IF fits(1) THEN 1 ELSE 0

\* snrPattern.FindStringSubmatch(text): the leftmost match at or after
\* position i, its group as Atoi reads it.
RECURSIVE snrFindFrom(_, _)
snrFindFrom(text, i) ==
    IF i > Len(text) THEN [ok |-> FALSE, v |-> 0]
    ELSE LET n == snrDigitsAt(text, i)
             j == IF text[i] \in {"+", "-"} THEN i + 1 ELSE i
         IN IF n > 0 THEN Atoi(SubSeq(text, i, j + n - 1)) ELSE snrFindFrom(text, i + 1)

snrFind(text) == snrFindFrom(text, 1)

\* The locals of parseSpot's token loop before the first token after the spotter.
loopStart(tokens, freqFromCall, freqOK) ==
    [ cleans |-> [i \in 1..Len(tokens) |-> cleanToken(tokens[i])],
      consumed |-> {1, 2, 3},
      freq |-> freqFromCall, hasFreq |-> freqOK, freqIdx |-> IF freqOK THEN 3 ELSE 0,
      dxCall |-> <<>>, dxIdx |-> 0, mode |-> <<>>, modeIdx |-> 0, timeToken |-> <<>>, wpmStr |-> <<>>,
      report |-> 0, hasReport |-> FALSE, reportIdx |-> 0,
      pendingNumIdx |-> -1, pendingNumValue |-> 0 ]

\* One iteration of the token loop of parseSpot, for tokens[idx].
loopStep(st, idx) ==
    LET peel == peelTimePrefix(st.cleans[idx])
        step(s1, clean, upper) ==
            LET take(s) == [s EXCEPT !.consumed = @ \cup {idx}]
                cand == parseFrequencyCandidate(clean)
                pat == classifyTokenWithFallback(upper)
                snr == parseInlineSNR(clean)
                num == parseSignedInt(clean)
                \* the statements after the keyword switch
                rest ==
                    IF ~s1.hasReport /\ snr.ok
                    THEN take([s1 EXCEPT !.report = snr.v, !.hasReport = TRUE, !.reportIdx = idx])
                    ELSE IF s1.hasFreq /\ s1.dxCall = <<>> /\ IsValidCallsign(clean)
                    THEN take([s1 EXCEPT !.dxCall = normalizeRBNCallsign(clean), !.dxIdx = idx])
                    ELSE IF s1.pendingNumIdx = -1 /\ num.ok
                    THEN [s1 EXCEPT !.pendingNumIdx = idx, !.pendingNumValue = num.v]
                    ELSE s1
            IN IF clean = <<>> THEN take(s1)
               ELSE IF s1.timeToken = <<>> /\ isTimeToken(clean)
               THEN take([s1 EXCEPT !.timeToken = clean, !.pendingNumIdx = -1])
               ELSE IF ~s1.hasFreq /\ cand.ok
               THEN take([s1 EXCEPT !.freq = cand.f, !.hasFreq = TRUE, !.freqIdx = idx])
               ELSE IF pat.kind = "acTokenMode" /\ s1.mode = <<>>
               THEN take([s1 EXCEPT !.mode = normalizeVoiceMode(pat.mode, s1.freq), !.modeIdx = idx])
               ELSE IF pat.kind = "acTokenDB" /\ ~s1.hasReport /\ s1.pendingNumIdx >= 0
               THEN [s1 EXCEPT !.report = s1.pendingNumValue, !.hasReport = TRUE,
                               !.reportIdx = s1.pendingNumIdx,
                               !.consumed = @ \cup {idx, s1.pendingNumIdx}, !.pendingNumIdx = -1]
               ELSE IF pat.kind = "acTokenDB" THEN take(s1)
               ELSE IF pat.kind = "acTokenWPM" /\ s1.wpmStr = <<>> /\ s1.pendingNumIdx >= 0
               THEN [s1 EXCEPT !.wpmStr = s1.cleans[s1.pendingNumIdx],
                               !.consumed = @ \cup {idx, s1.pendingNumIdx}, !.pendingNumIdx = -1]
               ELSE IF pat.kind \in {"acTokenDX", "acTokenDE"} THEN take(s1)
               ELSE rest
    IN IF st.timeToken = <<>> /\ peel.ts # <<>>
       THEN step([st EXCEPT !.timeToken = peel.ts, !.cleans[idx] = peel.rest],
                 peel.rest, ToUpper(peel.rest))
       ELSE step(st, st.cleans[idx], ToUpper(st.cleans[idx]))

RECURSIVE tokenLoop(_, _, _)
tokenLoop(st, idx, last) ==
    IF idx > last THEN st ELSE tokenLoop(loopStep(st, idx), idx + 1, last)

\* buildComment(tokens, consumed): the parts it joins.
RECURSIVE commentParts(_, _, _)
commentParts(cleans, consumed, i) ==
    IF i > Len(cleans) THEN <<>>
    ELSE LET clean == TrimSpace(cleans[i])
             upper == ToUpper(clean)
             skip == \/ i \in consumed
                     \/ clean = <<>>
                     \/ upper = Str("DX") \/ upper = Str("DE")
                     \/ (Len(upper) = 5 /\ upper[5] = "Z" /\ isAllDigits(SubSeq(upper, 1, 4)))
         IN (IF skip THEN <<>> ELSE <<clean>>) \o commentParts(cleans, consumed, i + 1)

buildComment(cleans, consumed) == JoinSpace(commentParts(cleans, consumed, 1))

\* c.lookup: the prefixes of the CTY database handed to the client, all of
\* them of ADIF entity 291.
IgCtyKeys == {<<"K">>, <<"W">>}

\* fetchCallsignInfo(call): whether the call resolves, and its ADIF entity.
fetchCallsignInfo(call) ==
    IF \E key \in IgCtyKeys : HasPrefix(call, key)
    THEN [ok |-> TRUE, ADIF |-> 291] ELSE [ok |-> FALSE, ADIF |-> 0]

\* skew.Store.Lookup(call): the factor, in ten-thousandths, of the table's entry.
skewLookup(table, call) ==
    LET key == ToUpper(TrimSpace(call))
    IN IF key # <<>> /\ key \in DOMAIN table
       THEN [ok |-> TRUE, factor |-> table[key]] ELSE [ok |-> FALSE, factor |-> 0]

\* skew.ApplyCorrection(store, call, freq): freq times the spotter's factor,
\* to the nearest tenth of a kHz.
ApplyCorrection(table, call, freq) ==
    LET l == skewLookup(table, call)
        d == l.factor - 10000
    IN IF ~l.ok \/ freq.nan THEN freq
       ELSE Float(freq.v + (freq.v \div 10000) * d + (((freq.v % 10000) * d + 5000) \div 10000))

\* spot.NewSpot(dxCall, deCall, freq, mode) and the fields parseSpot sets.
NewSpot(dxCall, deCall, freq, mode) ==
    [ DXCall |-> dxCall, DECall |-> deCall, Frequency |-> freq, Mode |-> mode,
      Report |-> 0, HasReport |-> FALSE, Comment |-> <<>>, Time |-> <<>>,
      IsHuman |-> FALSE, SourceType |-> "", SourceNode |-> <<>>, TTL |-> 0 ]

NoSpot == NewSpot(<<>>, <<>>, Float(0), <<>>)

\* parseSpot(line) up to the publish, but for the license gate: the spot it
\* builds (if any), the spotter's ADIF entity, and the locals of its token
\* loop.  tokens is the line as tokenizeSpotLine splits it.
parseSpotFields(c, modeAlloc, tokens) ==
    LET none(st) == [built |-> FALSE, ADIF |-> 0, spot |-> NoSpot, loop |-> st]
        \* the statements after the token loop
        build(ex, st) ==
            LET finish(deCall, mode, deInfo, comment0) ==
                    LET fromComment == IF ~st.hasReport /\ comment0 # <<>> THEN snrFind(comment0)
                                       ELSE [ok |-> FALSE, v |-> 0]
                        fromLine == IF ~st.hasReport /\ ~fromComment.ok THEN snrFind(JoinSpace(tokens))
                                    ELSE [ok |-> FALSE, v |-> 0]
                        hasReport == st.hasReport \/ fromComment.ok \/ fromLine.ok
                        report == IF st.hasReport THEN st.report
                                  ELSE IF fromComment.ok THEN fromComment.v
                                  ELSE IF fromLine.ok THEN fromLine.v ELSE 0
                        comment == IF st.wpmStr = <<>> THEN comment0
                                   ELSE IF comment0 # <<>>
                                   THEN st.wpmStr \o <<" ", "W", "P", "M", " ">> \o comment0
                                   ELSE st.wpmStr \o <<" ", "W", "P", "M">>
                        freq == IF c.minimalParse THEN st.freq
                                ELSE ApplyCorrection(c.skewStore, ex.call, st.freq)
                        s == [NewSpot(st.dxCall, deCall, freq, mode) EXCEPT
                                 !.Time = st.timeToken,
                                 !.Report = IF hasReport THEN report ELSE 0,
                                 !.HasReport = hasReport,
                                 !.Comment = comment,
                                 !.IsHuman = c.minimalParse,
                                 !.SourceType = IF c.minimalParse THEN "Upstream"
                                                ELSE IF mode = Str("FT8") THEN "FT8"
                                                ELSE IF mode = Str("FT4") THEN "FT4"
                                                ELSE "RBN",
                                 !.SourceNode =
                                     IF c.minimalParse THEN TrimSpace(c.name)
                                     ELSE IF c.port = 7001
                                     THEN <<"R", "B", "N", "-", "D", "I", "G", "I", "T", "A", "L">>
                                     ELSE <<"R", "B", "N">>]
                    IN IF ~IsValidCallsign(st.dxCall) \/ ~IsValidCallsign(deCall) THEN none(st)
                       ELSE IF ~c.minimalParse /\ (~fetchCallsignInfo(st.dxCall).ok \/ ~deInfo.ok)
                       THEN none(st)
                       ELSE [built |-> TRUE, ADIF |-> deInfo.ADIF, spot |-> s, loop |-> st]
            IN IF ~st.hasFreq \/ st.dxCall = <<>> THEN none(st)
               ELSE finish(NormalizeCallsign(ex.call), finalizeMode(modeAlloc, st.mode, st.freq),
                           fetchCallsignInfo(NormalizeCallsign(ex.call)),
                           buildComment(st.cleans, st.consumed))
        scan(ex) ==
            IF TrimSpace(ex.call) = <<>> THEN none(loopStart(tokens, ex.f, ex.ok))
            ELSE build(ex, tokenLoop(loopStart(tokens, ex.f, ex.ok), 4, Len(tokens)))
    IN IF Len(tokens) < 3 THEN none(loopStart(tokens, Float(0), FALSE))
       ELSE IF ToUpper(cleanToken(tokens[1])) # Str("DX") \/ ToUpper(cleanToken(tokens[2])) # Str("DE")
       THEN none(loopStart(tokens, Float(0), FALSE))
       ELSE scan(extractCallAndFreq(tokens[3]))

\* parseSpot(line) up to the publish: a strict parser drops the spot of a
\* spotter of ADIF entity 291 that uls.IsLicensedUS does not know (licensed
\* is its answer) and dispatches an unlicensed event.
parseSpot(c, fields, licensed) ==
    IF fields.built /\ ~c.minimalParse /\ fields.ADIF = 291 /\ ~licensed
    THEN [built |-> FALSE, unlicensed |-> TRUE, spot |-> NoSpot, loop |-> fields.loop]
    ELSE [built |-> fields.built, unlicensed |-> FALSE, spot |-> fields.spot, loop |-> fields.loop]

\* ---- the PC11/PC61 frame conversion (peer/parse.go) ----

\* strings.Fields(s)
RECURSIVE Fields(_)
Fields(s) ==
    LET t == TrimLeft(s, {" ", "\t", "\r", "\n"})
        stop == IF \E i \in 1..Len(t) : t[i] \in {" ", "\t", "\r", "\n"}
                THEN CHOOSE i \in 1..Len(t) :
                         t[i] \in {" ", "\t", "\r", "\n"} /\ \A j \in 1..(i - 1) : t[j] \notin {" ", "\t", "\r", "\n"}
                ELSE Len(t) + 1
    IN IF t = <<>> THEN <<>>
       ELSE <<SubSeq(t, 1, stop - 1)>> \o Fields(SubSeq(t, stop, Len(t)))

\* strings.ReplaceAll(s, old, " ") for the one-character strings in olds.
ReplaceWithSpace(s, olds) == [i \in 1..Len(s) |-> IF s[i] \in olds THEN " " ELSE s[i]]

modeTokens ==
    { Str("CW"), Str("RTTY"), Str("FT8"), Str("FT4"), Str("MSK144"), Str("MSK"),
      Str("USB"), Str("LSB"), Str("SSB"), Str("AM"), Str("FM") }

\* matchModeToken(token)
matchModeToken(token) == IF token \in modeTokens THEN token ELSE <<>>

\* parseSignedInt(tok) of peer/parse.go
peerParseSignedInt(tok) ==
    IF tok = <<>> THEN [ok |-> FALSE, v |-> 0]
    ELSE Atoi(IF tok[1] = "+" THEN Tail(tok) ELSE tok)

\* parseInlineDB(tok)
parseInlineDB(tok) ==
    IF Len(tok) < 3 \/ ~HasSuffix(ToLower(tok), <<"d", "b">>) THEN [ok |-> FALSE, v |-> 0]
    ELSE peerParseSignedInt(SubSeq(tok, 1, Len(tok) - 2))

\* The loop of parseCommentModeReport over fields[i..].
RECURSIVE commentLoop(_, _, _)
commentLoop(fields, i, acc) ==
    IF i > Len(fields) THEN acc
    ELSE LET tok == fields[i]
             upper == ToUpper(tok)
             inline == parseInlineDB(upper)
             num == peerParseSignedInt(tok)
         IN IF acc.skipNext THEN commentLoop(fields, i + 1, [acc EXCEPT !.skipNext = FALSE])
            ELSE IF acc.mode = <<>> /\ matchModeToken(upper) # <<>>
            THEN commentLoop(fields, i + 1, [acc EXCEPT !.mode = matchModeToken(upper)])
            ELSE IF ~acc.hasReport /\ inline.ok
            THEN commentLoop(fields, i + 1, [acc EXCEPT !.report = inline.v, !.hasReport = TRUE])
            ELSE IF ~acc.hasReport /\ num.ok /\ i + 1 <= Len(fields) /\ ToUpper(fields[i + 1]) = Str("DB")
            THEN commentLoop(fields, i + 1,
                             [acc EXCEPT !.report = num.v, !.hasReport = TRUE, !.skipNext = TRUE])
            ELSE commentLoop(fields, i + 1, [acc EXCEPT !.cleaned = Append(@, tok)])

\* parseCommentModeReport(comment, freq)
parseCommentModeReport(modeAlloc, comment, freq) ==
    LET fields == Fields(ReplaceWithSpace(comment, {"^", "\r", "\n"}))
        acc == commentLoop(fields, 1, [mode |-> <<>>, report |-> 0, hasReport |-> FALSE,
                                       skipNext |-> FALSE, cleaned |-> <<>>])
    IN IF fields = <<>>
       THEN [mode |-> FinalizeMode(modeAlloc, <<>>, freq), report |-> 0, hasReport |-> FALSE,
             cleaned |-> <<>>]
       ELSE [mode |-> FinalizeMode(modeAlloc, acc.mode, freq), report |-> acc.report,
             hasReport |-> acc.hasReport, cleaned |-> JoinSpace(acc.cleaned)]

\* parsePCDateTime(dateStr, timeStr): the two fields joined when both are
\* present and the time reads as HHMMZ, the empty string for time.Now().
parsePCDateTime(dateStr, timeStr) ==
    IF dateStr = <<>> \/ timeStr = <<>> THEN <<>>
    ELSE IF /\ isTimeToken(timeStr)
            /\ digitsValue(SubSeq(timeStr, 1, 2)) < 24
            /\ digitsValue(SubSeq(timeStr, 3, 4)) < 60
         THEN dateStr \o <<" ">> \o timeStr
         ELSE <<>>

\* parsePC11(fields, hop, fallbackOrigin) and parsePC61(fields, hop,
\* fallbackOrigin): they differ in the number of fields they need.
parsePC(modeAlloc, fields, hop, fallbackOrigin, need) ==
    LET p == ParseFloat(TrimSpace(fields[1]))
        origin == IF TrimSpace(fields[7]) = <<>> THEN fallbackOrigin ELSE TrimSpace(fields[7])
        r == parseCommentModeReport(modeAlloc, fields[5], p.f)
        s == [NewSpot(TrimSpace(fields[2]), TrimSpace(fields[6]), p.f, r.mode) EXCEPT
                 !.Time = parsePCDateTime(TrimSpace(fields[3]), TrimSpace(fields[4])),
                 !.Comment = r.cleaned,
                 !.SourceType = "Upstream",
                 !.SourceNode = origin,
                 !.Report = r.report,
                 !.HasReport = r.hasReport,
                 !.IsHuman = ~r.hasReport,
                 !.TTL = IF hop > 0 THEN hop % 256 ELSE 0]
    IN IF Len(fields) < need THEN [ok |-> FALSE, spot |-> NoSpot]
       ELSE IF ~p.ok THEN [ok |-> FALSE, spot |-> NoSpot]
       ELSE [ok |-> TRUE, spot |-> s]

parsePC11(modeAlloc, fields, hop, fallbackOrigin) == parsePC(modeAlloc, fields, hop, fallbackOrigin, 7)
parsePC61(modeAlloc, fields, hop, fallbackOrigin) == parsePC(modeAlloc, fields, hop, fallbackOrigin, 8)

\* parseSpotFromFrame(frame, fallbackOrigin)
parseSpotFromFrame(modeAlloc, frame, fallbackOrigin) ==
    IF frame.Type = "PC11" THEN parsePC11(modeAlloc, frame.fields, frame.Hop, fallbackOrigin)
    ELSE IF frame.Type = "PC61" THEN parsePC61(modeAlloc, frame.fields, frame.Hop, fallbackOrigin)
    ELSE [ok |-> FALSE, spot |-> NoSpot]

\* ---- inputs and actions ----

MaxLineTokens == 3
MaxParseCalls == 2
IgChanCap == 2

\* The tokens a line may carry after the spotter token, in three pools:
\* 14250.0, 7011.0, 99.9, 3000000.1, NAN, K1AB, SSB, 1234Z;
\* 14250.0, K1AB, FT8, 20, dB; and 14250.0, 7011, K1AB, CW, FT8.
IgTokenPools ==
    { { <<"1", "4", "2", "5", "0", ".", "0">>,
        <<"7", "0", "1", "1", ".", "0">>,
        <<"9", "9", ".", "9">>,
        <<"N", "A", "N">>,
        <<"K", "1", "A", "B">>,
        <<"S", "S", "B">>,
        <<"1", "2", "3", "4", "Z">> },
      { <<"1", "4", "2", "5", "0", ".", "0">>,
        <<"K", "1", "A", "B">>,
        <<"F", "T", "8">>,
        <<"2", "0">>,
        <<"d", "B">> },
      { <<"1", "4", "2", "5", "0", ".", "0">>,
        <<"7", "0", "1", "1">>,
        <<"K", "1", "A", "B">>,
        <<"C", "W">>,
        <<"F", "T", "8">> } }

\* The tokens that follow the DX call of a line with a report: 15, 20, dB.
IgReportTokens == { <<"1", "5">>, <<"2", "0">>, <<"d", "B">> }

\* The spotter token: W3LPL: and W3LPL:7011.0
IgSpotterTokens == { <<"W", "3", "L", "P", "L", ":">>, <<"W", "3", "L", "P", "L", ":", "7", "0", "1", "1", ".", "0">> }

\* The sequences of n different elements of S.
Arrangements(S, n) == { s \in [1..n -> S] : \A i, j \in 1..n : i # j => s[i] # s[j] }

\* The lines, as tokenizeSpotLine splits them: DX de <spotter> and up to
\* MaxLineTokens different tokens of one pool, and DX de W3LPL:7011.0 K1AB
\* followed by up to MaxLineTokens different report tokens.
IgLines ==
    { <<<<"D", "X">>, <<"d", "e">>, sp>> \o rest :
        sp \in IgSpotterTokens,
        rest \in UNION { Arrangements(pool, n) : pool \in IgTokenPools, n \in 0..MaxLineTokens } }
    \cup { <<<<"D", "X">>, <<"d", "e">>, <<"W", "3", "L", "P", "L", ":", "7", "0", "1", "1", ".", "0">>,
             <<"K", "1", "A", "B">>>> \o rest :
              rest \in UNION { Arrangements(IgReportTokens, n) : n \in 1..MaxLineTokens } }

IgFullModeAlloc == CHOOSE t \in ModeAllocTables : t # <<>>
IgSkewTables == { <<>>, [k \in {<<"W", "3", "L", "P", "L">>} |-> 10001] }

\* The clients: the permissive parser, and the strict parser without and
\* with a skew table.
IgClients ==
    { [minimalParse |-> m, skewStore |-> t, name |-> <<"H", "U", "M", "A", "N">>, port |-> 7000] :
        m \in BOOLEAN, t \in IgSkewTables } \
    { [minimalParse |-> TRUE, skewStore |-> t, name |-> <<"H", "U", "M", "A", "N">>, port |-> 7000] :
        t \in IgSkewTables \ {<<>>} }

\* The PC11/PC61 frames: frequency fields 14250.0, 50.0, 5000000.0, NAN,
\* -7.0 and QRG; comments "", "SSB", "CW 20 dB" and "FT8^-5dB".
IgFrameFrequencies == { <<"1", "4", "2", "5", "0", ".", "0">>, <<"5", "0", ".", "0">>, <<"5", "0", "0", "0", "0", "0", "0", ".", "0">>, <<"N", "A", "N">>, <<"-", "7", ".", "0">>, <<"Q", "R", "G">> }
IgFrameComments == { <<>>,
                     <<"S", "S", "B">>,
                     <<"C", "W", " ", "2", "0", " ", "d", "B">>,
                     <<"F", "T", "8", "^", "-", "5", "d", "B">> }
IgFrames ==
    { [Type |-> t, Hop |-> h,
       fields |-> SubSeq(<<f, <<"K", "1", "A", "B">>, <<"0", "2", "-", "N", "o", "v", "-", "2", "0", "2", "6">>, <<"1", "2", "3", "4", "Z">>, c, <<"W", "3", "L", "P", "L">>, o, <<"1", "0", ".", "0", ".", "0", ".", "1">>>>, 1, n)] :
        t \in {"PC11", "PC61"}, h \in {0, 5}, f \in IgFrameFrequencies, c \in IgFrameComments,
        o \in {<<>>, <<"N", "2", "W", "Q", "-", "1">>}, n \in {7, 8} }
IgFallbackOrigin == <<"P", "E", "E", "R">>

\* The inputs of FinalizeMode: "", "SSB", "ssb", " usb ", "CW", "lsb", " "
\* at 3750.0, 10000.0, 14250.0, 28500.0 kHz and NaN.
IgModes == { <<>>, <<"S", "S", "B">>, <<"s", "s", "b">>, <<" ", "u", "s", "b", " ">>, <<"C", "W">>, <<"l", "s", "b">>, <<" ">> }
IgFrequencies == {Float(37500), Float(100000), Float(142500), Float(285000), NaN}

IgNoFrame == [Type |-> "", Hop |-> 0, fields |-> <<>>]
IgInputs ==
    { [kind |-> "line", tokens |-> l, frame |-> IgNoFrame, mode |-> <<>>, freq |-> Float(0)] :
        l \in IgLines }
    \cup { [kind |-> "frame", tokens |-> <<>>, frame |-> f, mode |-> <<>>, freq |-> Float(0)] :
        f \in IgFrames }
    \cup { [kind |-> "mode", tokens |-> <<>>, frame |-> IgNoFrame, mode |-> m, freq |-> f] :
        m \in IgModes, f \in IgFrequencies }

IgIdleClient == CHOOSE c \in IgClients : c.minimalParse
IgIdleInput == [kind |-> "none", tokens |-> <<>>, frame |-> IgNoFrame, mode |-> <<>>, freq |-> Float(0)]
IgIdleParsed ==
    [ called |-> FALSE, built |-> FALSE, unlicensed |-> FALSE, spot |-> NoSpot,
      loop |-> loopStart(<<>>, Float(0), FALSE), before |-> <<>>, sent |-> FALSE, dropped |-> FALSE ]
IgIdleFrameOut == [called |-> FALSE, ok |-> FALSE, spot |-> NoSpot]
IgIdleModeOut == [called |-> FALSE, once |-> <<>>, twice |-> <<>>]

\* A client after NewClient (and UseMinimalParser), the band table loaded,
\* and the input that is about to arrive.
IgInit ==
    /\ igInput \in IgInputs
    /\ igClient \in IgClients
    /\ igInput.kind # "line" => igClient = IgIdleClient
    /\ igModeAlloc \in ModeAllocTables
    /\ igInput.kind = "line" => igModeAlloc = IgFullModeAlloc
    /\ igChan = <<>>
    /\ igCalls = 0
    /\ igParsed = IgIdleParsed
    /\ igFrameOut = IgIdleFrameOut
    /\ igModeOut = IgIdleModeOut

IgIdle ==
    /\ igInput = IgIdleInput
    /\ igClient = IgIdleClient
    /\ igModeAlloc = <<>>
    /\ igChan = <<>>
    /\ igCalls = 0
    /\ igParsed = IgIdleParsed
    /\ igFrameOut = IgIdleFrameOut
    /\ igModeOut = IgIdleModeOut

\* The end of parseSpot: select { case c.spotChan <- s: default: log }.
publishBlocking(spotChan, s) == Append(spotChan, s)
publish(spotChan, s) == IF Len(spotChan) < IgChanCap THEN Append(spotChan, s) ELSE spotChan

\* The read loop hands the line to parseSpot.
IgParseSpot ==
    /\ igInput.kind = "line"
    /\ igCalls < MaxParseCalls
    /\ LET run(fields) ==
               \E licensed \in BOOLEAN :
                  LET r == parseSpot(igClient, fields, licensed)
                      full == Len(igChan) >= IgChanCap
                  IN /\ igParsed' = [ called |-> TRUE, built |-> r.built, unlicensed |-> r.unlicensed,
                                      spot |-> r.spot, loop |-> r.loop, before |-> igChan,
                                      sent |-> r.built /\ ~full, dropped |-> r.built /\ full ]
                     /\ igChan' = IF r.built THEN publish(igChan, r.spot) ELSE igChan
       IN run(parseSpotFields(igClient, igModeAlloc, igInput.tokens))
    /\ igCalls' = igCalls + 1
    /\ UNCHANGED <<igInput, igClient, igModeAlloc, igFrameOut, igModeOut>>

\* The reader of GetSpotChannel takes a spot.
IgReceive ==
    /\ igChan # <<>>
    /\ igChan' = Tail(igChan)
    /\ UNCHANGED <<igInput, igClient, igModeAlloc, igCalls, igParsed, igFrameOut, igModeOut>>

\* The peer session hands a frame to parseSpotFromFrame.
IgParseFrame ==
    /\ igInput.kind = "frame"
    /\ ~igFrameOut.called
    /\ LET r == parseSpotFromFrame(igModeAlloc, igInput.frame, IgFallbackOrigin)
       IN igFrameOut' = [called |-> TRUE, ok |-> r.ok, spot |-> r.spot]
    /\ UNCHANGED <<igInput, igClient, igModeAlloc, igChan, igCalls, igParsed, igModeOut>>

\* FinalizeMode applied to a mode, and to its own result.
IgFinalizeMode ==
    /\ igInput.kind = "mode"
    /\ ~igModeOut.called
    /\ LET once == FinalizeMode(igModeAlloc, igInput.mode, igInput.freq)
       IN igModeOut' = [called |-> TRUE, once |-> once,
                        twice |-> FinalizeMode(igModeAlloc, once, igInput.freq)]
    /\ UNCHANGED <<igInput, igClient, igModeAlloc, igChan, igCalls, igParsed, igFrameOut>>

(***************************************************************************)
(* Telnet sessions: login and registration by callsign.  TODO.md lists     *)
(* closing an existing session of the same callsign before a new one is    *)
(* registered as work still to be done, so registration here replaces the  *)
(* registry entry and leaves the older session as it is.                   *)
(***************************************************************************)

MaxSessions == 3

\* The callsigns clients type at the login prompt: k1ab, K1AB, W3LPL, N0.
TnLogins ==
    { <<"k", "1", "a", "b">>, <<"K", "1", "A", "B">>, <<"W", "3", "L", "P", "L">>, <<"N", "0">> }
TnCallsigns == { NormalizeCallsign(raw) : raw \in TnLogins }

TnSessionIds == 1..MaxSessions

TnInit ==
    /\ tnSessions = [id \in TnSessionIds |-> [state |-> "none", callsign |-> <<>>]]
    /\ tnClients = [call \in TnCallsigns |-> 0]

TnIdle ==
    /\ tnSessions = <<>>
    /\ tnClients = <<>>

\* A connection is accepted: the banner and the login prompt are sent.
TnAccept ==
    \E id \in TnSessionIds :
        /\ tnSessions[id].state = "none"
        /\ tnSessions' = [tnSessions EXCEPT ![id].state = "Connecting"]
        /\ UNCHANGED tnClients

\* The client answers the login prompt: a valid callsign registers the
\* session under its normalized callsign, an invalid one is asked for again.
TnLogin ==
    \E id \in TnSessionIds, raw \in TnLogins :
        LET call == NormalizeCallsign(raw)
        IN /\ tnSessions[id].state = "Connecting"
           /\ IF IsValidCallsign(call)
              THEN /\ tnSessions' = [tnSessions EXCEPT ![id] = [state |-> "Active", callsign |-> call]]
                   /\ tnClients' = [tnClients EXCEPT ![call] = id]
              ELSE UNCHANGED <<tnSessions, tnClients>>

\* BYE, an I/O error, the idle timeout: the session closes and leaves the
\* registry if it is the one registered.
TnClose ==
    \E id \in TnSessionIds :
        /\ tnSessions[id].state \in {"Connecting", "Active"}
        /\ tnSessions' = [tnSessions EXCEPT ![id].state = "Closed"]
        /\ tnClients' = [call \in TnCallsigns |-> IF tnClients[call] = id THEN 0 ELSE tnClients[call]]

(***************************************************************************)
(* The session filter (filter/filter_test.go): whitelists for the DX and   *)
(* DE continent, CQ zone and 2-character grid, each with its All flag.     *)
(***************************************************************************)

MaxFilterEdits == 2

FtContinents == {"EU", "NA"}
FtZones == {14, 15}
\* The grids handed to SetDXGrid2Prefix and SetDEGrid2Prefix: FN05, KN.
FtGridPrefixes == { <<"F", "N", "0", "5">>, <<"K", "N">> }
\* The grids of a spot: none, FN, FN15, KN44.
FtGrids == { <<>>, <<"F", "N">>, <<"F", "N", "1", "5">>, <<"K", "N", "4", "4">> }

\* The spots: a missing continent is "", a missing zone 0, a missing grid "".
FtSpots ==
    [ DXContinent : {"", "EU", "NA"}, DEContinent : {"NA"},
      DXZone : {0, 14, 15}, DEZone : {5},
      DXGrid : FtGrids, DEGrid : { <<>>, <<"F", "N">>, <<"K", "N", "4", "4">> } ]

FtFields == {"DXContinents", "DEContinents", "DXZones", "DEZones", "DXGrid2", "DEGrid2"}

\* NewFilter()
NewFilter ==
    [ lists |-> [field \in FtFields |-> {}],
      all |-> [field \in FtFields |-> TRUE] ]

\* The first two characters of a grid, upper-case.
grid2(grid) ==
    LET g == ToUpper(TrimSpace(grid))
    IN IF Len(g) > 2 THEN SubSeq(g, 1, 2) ELSE g

\* SetDXContinent, SetDEContinent, SetDXZone, SetDEZone, SetDXGrid2Prefix,
\* SetDEGrid2Prefix (value, allowed): the whitelist gains or loses the value;
\* the All flag is set exactly when the whitelist is left empty.
setWhitelistKeepActive(f, field, value, allowed) ==
    LET list == IF allowed THEN f.lists[field] \cup {value} ELSE f.lists[field] \ {value}
    IN [ lists |-> [f.lists EXCEPT ![field] = list],
         all |-> [f.all EXCEPT ![field] = FALSE] ]
setWhitelist(f, field, value, allowed) ==
    LET list == IF allowed THEN f.lists[field] \cup {value} ELSE f.lists[field] \ {value}
    IN [ lists |-> [f.lists EXCEPT ![field] = list],
         all |-> [f.all EXCEPT ![field] = (list = {})] ]

\* Filter.Matches(spot)
Matches(f, s) ==
    /\ f.all["DXContinents"] \/ s.DXContinent \in f.lists["DXContinents"]
    /\ f.all["DEContinents"] \/ s.DEContinent \in f.lists["DEContinents"]
    /\ f.all["DXZones"] \/ s.DXZone \in f.lists["DXZones"]
    /\ f.all["DEZones"] \/ s.DEZone \in f.lists["DEZones"]
    /\ f.all["DXGrid2"] \/ grid2(s.DXGrid) \in f.lists["DXGrid2"]
    /\ f.all["DEGrid2"] \/ grid2(s.DEGrid) \in f.lists["DEGrid2"]

FtIdleLast == [called |-> FALSE, result |-> FALSE]

FtInit ==
    /\ ftFilter = NewFilter
    /\ ftSpot \in FtSpots
    /\ ftEdits = 0
    /\ ftLast = FtIdleLast

FtIdle ==
    /\ ftFilter = NewFilter
    /\ ftSpot = CHOOSE s \in FtSpots : s.DXContinent = "" /\ s.DXZone = 0 /\ s.DXGrid = <<>> /\ s.DEGrid = <<>>
    /\ ftEdits = 0
    /\ ftLast = FtIdleLast

\* A FILTER or UNFILTER command edits one whitelist.
FtSet ==
    /\ ftEdits < MaxFilterEdits
    /\ \E field \in FtFields, allowed \in BOOLEAN :
          \E value \in (IF field \in {"DXContinents", "DEContinents"} THEN FtContinents
                        ELSE IF field \in {"DXZones", "DEZones"} THEN FtZones
                        ELSE {grid2(g) : g \in FtGridPrefixes}) :
              ftFilter' = setWhitelist(ftFilter, field, value, allowed)
    /\ ftEdits' = ftEdits + 1
    /\ ftLast' = FtIdleLast
    /\ UNCHANGED ftSpot

\* The broadcast asks the session's filter about the spot.
FtMatches ==
    /\ ~ftLast.called
    /\ ftLast' = [called |-> TRUE, result |-> Matches(ftFilter, ftSpot)]
    /\ UNCHANGED <<ftFilter, ftSpot, ftEdits>>

(***************************************************************************)
(* A source client's goroutines (rbn/client.go), the goroutine that        *)
(* forwards its spot channel into the deduplicator (main: processRBNSpots, *)
(* processPSKRSpots) and the archive writer's queue (archive/archive.go).  *)
(***************************************************************************)

MaxSourceSpots == 3
MaxReadErrors == 2
MaxDialFailures == 5
MaxArchiveSpots == 2
DedupInputCap == 1
ArchiveQueueCap == 1

\* connectionSupervisor: initialDelay, maxDelay, in seconds.
initialDelay == 5
maxDelay == 60

\* connectionSupervisor: delay *= 2; if delay > maxDelay { delay = maxDelay }
nextDelayUncapped(delay) == delay * 2
nextDelay(delay) == IF delay * 2 > maxDelay THEN maxDelay ELSE delay * 2

\* Writer.Enqueue(s): select { case w.queue <- s: default: }
Enqueue(queue, s) == IF Len(queue) < ArchiveQueueCap THEN Append(queue, s) ELSE queue

ScIdleLast == [op |-> "none", spot |-> 0, before |-> <<>>, after |-> <<>>]

ScIdleCount == [read |-> 0, errors |-> 0, attempts |-> 0, offered |-> 0,
                clientDropped |-> 0, archiveDropped |-> 0]

\* NewClient, SetUnlicensedReporter, NewWriter: main has not yet called Connect.
ScInit ==
    /\ scShutdown = FALSE
    /\ scReconnect = FALSE
    /\ scReadLoop = "none"
    /\ scSupervisor = "new"
    /\ scUnlicensed = "select"
    /\ scForwarder = [pc |-> "none", spot |-> 0]
    /\ scSpotChan = <<>>
    /\ scDedupInput = <<>>
    /\ scQueue = <<>>
    /\ scDropCount = 0
    /\ scCount = ScIdleCount
    /\ scLast = ScIdleLast
    /\ scDelay = 0
    /\ scWaits = <<>>
    /\ scReceived = <<>>

ScIdle ==
    /\ scShutdown = TRUE
    /\ scReconnect = FALSE
    /\ scReadLoop = "done"
    /\ scSupervisor = "done"
    /\ scUnlicensed = "done"
    /\ scForwarder = [pc |-> "done", spot |-> 0]
    /\ scSpotChan = <<>>
    /\ scDedupInput = <<>>
    /\ scQueue = <<>>
    /\ scDropCount = 0
    /\ scCount = ScIdleCount
    /\ scLast = ScIdleLast
    /\ scDelay = 0
    /\ scWaits = <<>>
    /\ scReceived = <<>>

\* main: err = rbnClient.Connect().  Connect dials once: on success it starts
\* the read loop and the supervisor, and main starts the forwarder; on failure
\* Connect returns the error, no supervisor is started and main only logs.
ScConnect ==
    /\ scSupervisor = "new"
    /\ \E ok \in BOOLEAN :
          IF ok
          THEN /\ scReadLoop' = "running"
               /\ scSupervisor' = "select"
               /\ scForwarder' = [pc |-> "range", spot |-> 0]
          ELSE /\ scReadLoop' = scReadLoop
               /\ scSupervisor' = "absent"
               /\ scForwarder' = scForwarder
    /\ scCount' = [scCount EXCEPT !.attempts = @ + 1]
    /\ UNCHANGED <<scShutdown, scReconnect, scUnlicensed, scSpotChan, scDedupInput,
                   scQueue, scDropCount, scLast, scDelay, scWaits, scReceived>>

\* readLoop reads a DX line; parseSpot publishes the spot on spotChan.
ScReadLine ==
    /\ scReadLoop = "running" /\ ~scShutdown
    /\ scCount.read < MaxSourceSpots
    /\ LET s == scCount.read + 1
           full == Len(scSpotChan) >= IgChanCap
       IN /\ scSpotChan' = publish(scSpotChan, s)
          /\ scCount' = [scCount EXCEPT !.read = s,
                                        !.clientDropped = IF full THEN @ + 1 ELSE @]
          /\ scLast' = [op |-> "publish", spot |-> s, before |-> scSpotChan,
                        after |-> publish(scSpotChan, s)]
    /\ UNCHANGED <<scShutdown, scReconnect, scReadLoop, scSupervisor, scUnlicensed,
                   scForwarder, scDedupInput, scQueue, scDropCount, scDelay, scWaits,
                   scReceived>>

\* readLoop: a read error before shutdown asks for a reconnect and returns.
ScReadError ==
    /\ scReadLoop = "running" /\ ~scShutdown
    /\ scCount.errors < MaxReadErrors
    /\ scReadLoop' = "done"
    /\ scReconnect' = TRUE
    /\ scCount' = [scCount EXCEPT !.errors = @ + 1]
    /\ UNCHANGED <<scShutdown, scSupervisor, scUnlicensed, scForwarder, scSpotChan,
                   scDedupInput, scQueue, scDropCount, scLast, scDelay, scWaits, scReceived>>

\* readLoop: shutdown is closed (seen by the select, or by isShutdown after
\* the read on the closed connection failed): return.
ScReadLoopExit ==
    /\ scReadLoop = "running" /\ scShutdown
    /\ scReadLoop' = "done"
    /\ UNCHANGED <<scShutdown, scReconnect, scSupervisor, scUnlicensed, scForwarder,
                   scSpotChan, scDedupInput, scQueue, scDropCount, scCount, scLast,
                   scDelay, scWaits, scReceived>>

\* establishConnection from the supervisor, with the delay of this attempt:
\* the dial succeeds and starts a read loop, or fails and the supervisor
\* waits for the delay in the backoff select.
establish(ok, delay) ==
    /\ IF ok
       THEN /\ scReadLoop' = "running"
            /\ scSupervisor' = "select"
            /\ scDelay' = 0
            /\ scWaits' = <<>>
       ELSE /\ Len(scWaits) < MaxDialFailures
            /\ scReadLoop' = scReadLoop
            /\ scSupervisor' = "backoff"
            /\ scDelay' = delay
            /\ scWaits' = Append(scWaits, delay)
    /\ scCount' = [scCount EXCEPT !.attempts = @ + 1]

\* connectionSupervisor: case <-c.reconnect: delay := initialDelay, first attempt.
ScReconnect ==
    /\ scSupervisor = "select" /\ scReconnect /\ ~scShutdown
    /\ scReconnect' = FALSE
    /\ \E ok \in BOOLEAN : establish(ok, initialDelay)
    /\ UNCHANGED <<scShutdown, scUnlicensed, scForwarder, scSpotChan, scDedupInput,
                   scQueue, scDropCount, scLast, scReceived>>

\* connectionSupervisor: case <-timer.C: the delay is doubled up to maxDelay,
\* then the next attempt.
ScBackoffExpire ==
    /\ scSupervisor = "backoff" /\ ~scShutdown
    /\ \E ok \in BOOLEAN : establish(ok, nextDelay(scDelay))
    /\ UNCHANGED <<scShutdown, scReconnect, scUnlicensed, scForwarder, scSpotChan,
                   scDedupInput, scQueue, scDropCount, scLast, scReceived>>

\* connectionSupervisor: case <-c.shutdown, in the outer or the backoff select.
ScSupervisorExit ==
    /\ scSupervisor \in {"select", "backoff"} /\ scShutdown
    /\ scSupervisor' = "done"
    /\ UNCHANGED <<scShutdown, scReconnect, scReadLoop, scUnlicensed, scForwarder,
                   scSpotChan, scDedupInput, scQueue, scDropCount, scCount, scLast,
                   scDelay, scWaits, scReceived>>

\* unlicensedLoop: case <-c.shutdown
ScUnlicensedExit ==
    /\ scUnlicensed = "select" /\ scShutdown
    /\ scUnlicensed' = "done"
    /\ UNCHANGED <<scShutdown, scReconnect, scReadLoop, scSupervisor, scForwarder,
                   scSpotChan, scDedupInput, scQueue, scDropCount, scCount, scLast,
                   scDelay, scWaits, scReceived>>

\* Client.Stop(), called by main at process shutdown, after Connect:
\* close(c.shutdown), c.conn.Close().  Nothing closes spotChan.
ScStop ==
    /\ ~scShutdown /\ scSupervisor # "new"
    /\ scShutdown' = TRUE
    /\ UNCHANGED <<scReconnect, scReadLoop, scSupervisor, scUnlicensed, scForwarder,
                   scSpotChan, scDedupInput, scQueue, scDropCount, scCount, scLast,
                   scDelay, scWaits, scReceived>>

\* processRBNSpots: for spot := range spotChan { dedupInput <- spot }.  The
\* send completes when dedupInput has room; otherwise the goroutine is parked
\* in the send with the spot in hand.
forward(spot) ==
    /\ scReceived' = Append(scReceived, spot)
    /\ IF Len(scDedupInput) < DedupInputCap
       THEN /\ scDedupInput' = Append(scDedupInput, spot)
            /\ scForwarder' = scForwarder
       ELSE /\ scDedupInput' = scDedupInput
            /\ scForwarder' = [pc |-> "send", spot |-> spot]

ScForwardNewest ==
    /\ scForwarder.pc = "range" /\ scSpotChan # <<>>
    /\ scSpotChan' = SubSeq(scSpotChan, 1, Len(scSpotChan) - 1)
    /\ forward(scSpotChan[Len(scSpotChan)])
    /\ UNCHANGED <<scShutdown, scReconnect, scReadLoop, scSupervisor, scUnlicensed,
                   scQueue, scDropCount, scCount, scLast, scDelay, scWaits>>
ScForward ==
    /\ scForwarder.pc = "range" /\ scSpotChan # <<>>
    /\ scSpotChan' = Tail(scSpotChan)
    /\ forward(Head(scSpotChan))
    /\ UNCHANGED <<scShutdown, scReconnect, scReadLoop, scSupervisor, scUnlicensed,
                   scQueue, scDropCount, scCount, scLast, scDelay, scWaits>>

\* processRBNSpots: the parked send completes once dedupInput has room.
ScForwardResume ==
    /\ scForwarder.pc = "send" /\ Len(scDedupInput) < DedupInputCap
    /\ scDedupInput' = Append(scDedupInput, scForwarder.spot)
    /\ scForwarder' = [pc |-> "range", spot |-> 0]
    /\ UNCHANGED <<scShutdown, scReconnect, scReadLoop, scSupervisor, scUnlicensed,
                   scSpotChan, scQueue, scDropCount, scCount, scLast, scDelay, scWaits,
                   scReceived>>

\* The deduplicator takes a spot from its input channel.
ScDedupReceive ==
    /\ scDedupInput # <<>>
    /\ scDedupInput' = Tail(scDedupInput)
    /\ UNCHANGED <<scShutdown, scReconnect, scReadLoop, scSupervisor, scUnlicensed,
                   scForwarder, scSpotChan, scQueue, scDropCount, scCount, scLast, scDelay,
                   scWaits, scReceived>>

\* Writer.Enqueue(s): dropCount is declared by Writer and written nowhere.
ScEnqueue ==
    /\ scCount.offered < MaxArchiveSpots
    /\ LET s == scCount.offered + 1
           full == Len(scQueue) >= ArchiveQueueCap
       IN /\ scQueue' = Enqueue(scQueue, s)
          /\ scCount' = [scCount EXCEPT !.offered = s,
                                        !.archiveDropped = IF full THEN @ + 1 ELSE @]
          /\ scLast' = [op |-> "Enqueue", spot |-> s, before |-> scQueue,
                        after |-> Enqueue(scQueue, s)]
    /\ scDropCount' = scDropCount
    /\ UNCHANGED <<scShutdown, scReconnect, scReadLoop, scSupervisor, scUnlicensed,
                   scForwarder, scSpotChan, scDedupInput, scDelay, scWaits, scReceived>>

\* insertLoop: case s := <-w.queue
ScInsert ==
    /\ scQueue # <<>>
    /\ scQueue' = Tail(scQueue)
    /\ UNCHANGED <<scShutdown, scReconnect, scReadLoop, scSupervisor, scUnlicensed,
                   scForwarder, scSpotChan, scDedupInput, scDropCount, scCount, scLast,
                   scDelay, scWaits, scReceived>>

(***************************************************************************)
(* parseTimeFromRBN (rbn/client.go): the HHMMZ token of a line against the *)
(* current UTC time.  Instants are seconds since the epoch.                *)
(***************************************************************************)

SecondsPerDay == 86400
TwelveHours == 43200

\* The time tokens of a line, and a token isTimeToken refuses.
TmTokens ==
    { <<"0", "0", "0", "0", "Z">>, <<"0", "0", "3", "1", "Z">>, <<"1", "1", "5", "9", "Z">>,
      <<"1", "2", "0", "0", "Z">>, <<"1", "2", "0", "1", "Z">>, <<"2", "3", "5", "9", "Z">>,
      <<"2", "4", "0", "0", "Z">>, <<"4", "8", "0", "0", "Z">>, <<"9", "9", "9", "9", "Z">>,
      <<"1", "2", "3", "4", "5">> }

\* time.Now().UTC(): times of day on the tenth day after the epoch.
TmNows ==
    { 10 * SecondsPerDay + s :
        s \in {0, 30, 10 * 3600, 12 * 3600 - 1, 12 * 3600, 12 * 3600 + 30, 12 * 3600 + 60,
               24 * 3600 - 1} }

\* parseTimeFromRBN(timeStr), with now the value of time.Now().UTC()
parseTimeFromRBN(timeStr, now) ==
    IF Len(timeStr) # 5 \/ ~HasSuffix(timeStr, <<"Z">>) THEN now
    ELSE LET hour == Atoi(SubSeq(timeStr, 1, 2))
             min == Atoi(SubSeq(timeStr, 3, 4))
             rolled(spotTime) ==
                 LET back == IF spotTime - now > TwelveHours
                             THEN spotTime - SecondsPerDay ELSE spotTime
                 IN IF now - back > TwelveHours THEN back + SecondsPerDay ELSE back
         IN IF ~hour.ok \/ ~min.ok THEN now
            ELSE rolled((now - (now % SecondsPerDay)) + hour.v * 3600 + min.v * 60)

TmIdleOut == [called |-> FALSE, accepted |-> FALSE, t |-> 0]

TmInit ==
    /\ tmToken \in TmTokens
    /\ tmNow \in TmNows
    /\ tmOut = TmIdleOut

TmIdle ==
    /\ tmToken = <<>>
    /\ tmNow = 0
    /\ tmOut = TmIdleOut

\* parseSpot: if timeToken != "" { s.Time = parseTimeFromRBN(timeToken) }
TmParse ==
    /\ ~tmOut.called
    /\ tmOut' = [called |-> TRUE, accepted |-> isTimeToken(tmToken),
                 t |-> parseTimeFromRBN(tmToken, tmNow)]
    /\ UNCHANGED <<tmToken, tmNow>>

\* The clock moves on to the next line.
TmNext ==
    /\ tmOut.called
    /\ \E tok \in TmTokens, now \in TmNows :
          /\ now > tmNow
          /\ tmToken' = tok
          /\ tmNow' = now
    /\ tmOut' = TmIdleOut

(***************************************************************************)
(* A source client's connection (rbn/client.go): establishConnection,      *)
(* readLoop with its two deferred functions, requestReconnect, the         *)
(* supervisor and Stop, one statement group per step.  Connections are     *)
(* numbered in the order they are dialled; each successful dial starts the *)
(* read loop of the same number.  c.conn, c.reader and c.connected are     *)
(* fields of the client that every read loop reads when it uses them.      *)
(***************************************************************************)

\* Bound: the successful dials of one run.
CnMaxDials == 3

CnLoops == 1..CnMaxDials

CnIdleLast == [op |-> "none", loop |-> 0, target |-> 0, current |-> 0, panic |-> FALSE]

\* readLoop's first deferred function with recover() left out: a panic goes
\* up the goroutine and ends the process.
readLoopNoRecover(panicking) ==
    IF panicking
    THEN [process |-> "crashed", request |-> FALSE]
    ELSE [process |-> "running", request |-> FALSE]

\* readLoop's first deferred function: if r := recover(); r != nil { log;
\* c.requestReconnect(...) }.  It runs last, after the function that closes
\* the connection.
readLoopRecover(panicking) ==
    IF panicking
    THEN [process |-> "running", request |-> TRUE]
    ELSE [process |-> "running", request |-> FALSE]

\* requestReconnect: nothing after shutdown; else a non-blocking send on the
\* reconnect channel (capacity 1).
requestReconnect(reconnect, shutdown) == IF shutdown THEN reconnect ELSE TRUE

CnInit ==
    /\ cnShutdown = FALSE
    /\ cnReconnect = FALSE
    /\ cnConn = 0
    /\ cnConnected = FALSE
    /\ cnOpen = {}
    /\ cnLoops = [l \in CnLoops |-> "none"]
    /\ cnSupervisor = "new"
    /\ cnProcess = "running"
    /\ cnLast = CnIdleLast

CnIdle ==
    /\ cnShutdown = TRUE
    /\ cnReconnect = FALSE
    /\ cnConn = 0
    /\ cnConnected = FALSE
    /\ cnOpen = {}
    /\ cnLoops = [l \in CnLoops |-> "none"]
    /\ cnSupervisor = "done"
    /\ cnProcess = "running"
    /\ cnLast = CnIdleLast

\* establishConnection: the dial fails, or c.conn, c.reader, c.writer are
\* set to the new connection, c.connected = true and its read loop starts.
establishConnection(ok) ==
    IF ok
    THEN /\ cnConn < CnMaxDials
         /\ cnConn' = cnConn + 1
         /\ cnOpen' = cnOpen \cup {cnConn + 1}
         /\ cnConnected' = TRUE
         /\ cnLoops' = [cnLoops EXCEPT ![cnConn + 1] = "read"]
    ELSE UNCHANGED <<cnConn, cnOpen, cnConnected, cnLoops>>

\* Connect: the first dial; the supervisor is started only when it succeeds.
CnConnect ==
    /\ cnProcess = "running" /\ cnSupervisor = "new"
    /\ \E ok \in BOOLEAN :
          /\ establishConnection(ok)
          /\ cnSupervisor' = IF ok THEN "select" ELSE "absent"
    /\ UNCHANGED <<cnShutdown, cnReconnect, cnProcess, cnLast>>

\* readLoop: ReadString fails.  After shutdown the loop returns; otherwise
\* it calls requestReconnect(err) and returns.  The deferred functions have
\* not run yet.
CnReadError(l) ==
    /\ cnProcess = "running" /\ cnLoops[l] = "read"
    /\ cnReconnect' = requestReconnect(cnReconnect, cnShutdown)
    /\ cnLoops' = [cnLoops EXCEPT ![l] = "return"]
    /\ cnLast' = [op |-> "error", loop |-> l, target |-> 0, current |-> cnConn, panic |-> FALSE]
    /\ UNCHANGED <<cnShutdown, cnConn, cnConnected, cnOpen, cnSupervisor, cnProcess>>

\* readLoop: case <-c.shutdown: return.
CnReadShutdown(l) ==
    /\ cnProcess = "running" /\ cnLoops[l] = "read" /\ cnShutdown
    /\ cnLoops' = [cnLoops EXCEPT ![l] = "return"]
    /\ UNCHANGED <<cnShutdown, cnReconnect, cnConn, cnConnected, cnOpen, cnSupervisor, cnProcess, cnLast>>

\* readLoop: a panic is raised while a line is processed (parseSpot).
CnReadPanic(l) ==
    /\ cnProcess = "running" /\ cnLoops[l] = "read"
    /\ cnLoops' = [cnLoops EXCEPT ![l] = "panic"]
    /\ cnLast' = [op |-> "panic", loop |-> l, target |-> 0, current |-> cnConn, panic |-> TRUE]
    /\ UNCHANGED <<cnShutdown, cnReconnect, cnConn, cnConnected, cnOpen, cnSupervisor, cnProcess>>

\* readLoop's second deferred function, run first on the way out:
\* c.connected = false; if c.conn != nil { c.conn.Close() }.  c.conn is read
\* without synchronisation: when the supervisor has replaced it since this
\* loop started, the loop may see the new connection or still its own.
CnDeferClose(l) ==
    /\ cnProcess = "running" /\ cnLoops[l] \in {"return", "panic"}
    /\ \E target \in {cnConn, l} :
          /\ cnOpen' = cnOpen \ {target}
          /\ cnLast' = [op |-> "close", loop |-> l, target |-> target, current |-> cnConn,
                        panic |-> cnLoops[l] = "panic"]
    /\ cnConnected' = FALSE
    /\ cnLoops' = [cnLoops EXCEPT ![l] = IF cnLoops[l] = "panic" THEN "recover" ELSE "unwind"]
    /\ UNCHANGED <<cnShutdown, cnReconnect, cnConn, cnSupervisor, cnProcess>>

\* readLoop's first deferred function, run last.
CnDeferRecover(l) ==
    /\ cnProcess = "running" /\ cnLoops[l] \in {"unwind", "recover"}
    /\ LET out == readLoopRecover(cnLoops[l] = "recover")
       IN /\ cnProcess' = out.process
          /\ cnReconnect' = IF out.request
                            THEN requestReconnect(cnReconnect, cnShutdown)
                            ELSE cnReconnect
          /\ cnLast' = [op |-> "exit", loop |-> l, target |-> 0, current |-> cnConn,
                        panic |-> cnLoops[l] = "recover"]
    /\ cnLoops' = [cnLoops EXCEPT ![l] = "done"]
    /\ UNCHANGED <<cnShutdown, cnConn, cnConnected, cnOpen, cnSupervisor>>

\* connectionSupervisor: case <-c.reconnect, then the first attempt; a failed
\* attempt waits in the backoff select.
CnReconnect ==
    /\ cnProcess = "running" /\ cnSupervisor = "select" /\ cnReconnect /\ ~cnShutdown
    /\ cnReconnect' = FALSE
    /\ \E ok \in BOOLEAN :
          /\ establishConnection(ok)
          /\ cnSupervisor' = IF ok THEN "select" ELSE "backoff"
    /\ UNCHANGED <<cnShutdown, cnProcess, cnLast>>

\* connectionSupervisor: case <-timer.C, then the next attempt.
CnBackoffExpire ==
    /\ cnProcess = "running" /\ cnSupervisor = "backoff" /\ ~cnShutdown
    /\ \E ok \in BOOLEAN :
          /\ establishConnection(ok)
          /\ cnSupervisor' = IF ok THEN "select" ELSE "backoff"
    /\ UNCHANGED <<cnShutdown, cnReconnect, cnProcess, cnLast>>

\* connectionSupervisor: case <-c.shutdown, or isShutdown() after a reconnect
\* request.
CnSupervisorExit ==
    /\ cnProcess = "running" /\ cnSupervisor \in {"select", "backoff"} /\ cnShutdown
    /\ cnSupervisor' = "done"
    /\ UNCHANGED <<cnShutdown, cnReconnect, cnConn, cnConnected, cnOpen, cnLoops, cnProcess, cnLast>>

\* Stop: close(c.shutdown); if c.conn != nil { c.conn.Close() }.
CnStop ==
    /\ cnProcess = "running" /\ ~cnShutdown /\ cnSupervisor # "new"
    /\ cnShutdown' = TRUE
    /\ cnOpen' = cnOpen \ {cnConn}
    /\ UNCHANGED <<cnReconnect, cnConn, cnConnected, cnLoops, cnSupervisor, cnProcess, cnLast>>

(***************************************************************************)
(* The adaptive refresher (adaptive_refresher.go).  Its goroutine calls    *)
(* maybeRefresh on every tick of a one-minute ticker; the spot pipeline    *)
(* calls IncrementSpots from other goroutines.  Times are in minutes, 0 is *)
(* the zero time.Time.  maybeRefresh is two steps: the checks up to the    *)
(* atomic load of the counter, and the run with the two stores after it.   *)
(***************************************************************************)

\* Bounds: the clock, and the calls of IncrementSpots.
MaxRfTime == 5
MaxIncrements == 4

\* The states spot.AdaptiveMinReports.HighestState may answer; "storm" is
\* one the refresher has no interval for.
RfStates == {"quiet", "normal", "busy", "storm"}

\* The configurations: refresh minutes per state and the spot gate; in the
\* second one the busy interval is not configured.
RfCfgSet ==
    { [QuietRefreshMinutes |-> 3, NormalRefreshMinutes |-> 2, BusyRefreshMinutes |-> 1,
       MinSpotsSinceLastRefresh |-> 2],
      [QuietRefreshMinutes |-> 3, NormalRefreshMinutes |-> 2, BusyRefreshMinutes |-> 0,
       MinSpotsSinceLastRefresh |-> 1] }

\* newAdaptiveRefresher: the minutes map.
minutes(cfg) ==
    [state \in {"quiet", "normal", "busy"} |->
        IF state = "quiet" THEN cfg.QuietRefreshMinutes
        ELSE IF state = "normal" THEN cfg.NormalRefreshMinutes
        ELSE cfg.BusyRefreshMinutes]

\* The same choice with the elapsed-time gate open.
intervalNone(cfg, state) == 0

\* maybeRefresh: interval, ok := r.minutes[state]; if !ok || interval <= 0
\* { interval = NormalRefreshMinutes }.
interval(cfg, state) ==
    IF state \notin DOMAIN minutes(cfg) \/ minutes(cfg)[state] <= 0
    THEN cfg.NormalRefreshMinutes
    ELSE minutes(cfg)[state]

RfIdleCall == [pc |-> "idle", now |-> 0, state |-> "", loaded |-> 0]
RfIdleLast == [op |-> "none", now |-> 0, state |-> "", lastRun |-> 0, loaded |-> 0]

\* newAdaptiveRefresher and Start, at minute 1.
RfInit ==
    /\ rfCfg \in RfCfgSet
    /\ rfNow = 1
    /\ rfLastRun = 0
    /\ rfSpotCount = 0
    /\ rfCall = RfIdleCall
    /\ rfTotal = 0
    /\ rfCredited = 0
    /\ rfLast = RfIdleLast

RfIdle ==
    /\ rfCfg = CHOOSE cfg \in RfCfgSet : cfg.BusyRefreshMinutes = 1
    /\ rfNow = 1
    /\ rfLastRun = 0
    /\ rfSpotCount = 0
    /\ rfCall = RfIdleCall
    /\ rfTotal = 0
    /\ rfCredited = 0
    /\ rfLast = RfIdleLast

\* A minute passes between two calls of maybeRefresh.
RfTick ==
    /\ rfCall.pc = "idle"
    /\ rfNow < MaxRfTime
    /\ rfNow' = rfNow + 1
    /\ UNCHANGED <<rfCfg, rfLastRun, rfSpotCount, rfCall, rfTotal, rfCredited, rfLast>>

\* IncrementSpots: atomic.AddInt64(&r.spotCount, 1), from any goroutine.
IncrementSpots ==
    /\ rfTotal < MaxIncrements
    /\ rfSpotCount' = rfSpotCount + 1
    /\ rfTotal' = rfTotal + 1
    /\ UNCHANGED <<rfCfg, rfNow, rfLastRun, rfCall, rfCredited, rfLast>>

\* maybeRefresh(now) up to the load of the counter: the first call only sets
\* lastRun; a call before the interval has elapsed or with too few spots
\* returns; otherwise the call goes on to the run.
maybeRefresh(now, state) ==
    LET last(op, loaded) == [op |-> op, now |-> now, state |-> state, lastRun |-> rfLastRun,
                             loaded |-> loaded]
    IN IF rfLastRun = 0
       THEN /\ rfLastRun' = now
            /\ rfLast' = last("init", 0)
            /\ UNCHANGED rfCall
       ELSE IF now - rfLastRun < interval(rfCfg, state)
       THEN /\ rfLast' = last("early", 0)
            /\ UNCHANGED <<rfLastRun, rfCall>>
       ELSE IF rfSpotCount < rfCfg.MinSpotsSinceLastRefresh
       THEN /\ rfLast' = last("few", rfSpotCount)
            /\ UNCHANGED <<rfLastRun, rfCall>>
       ELSE /\ rfCall' = [pc |-> "run", now |-> now, state |-> state, loaded |-> rfSpotCount]
            /\ rfLast' = last("load", rfSpotCount)
            /\ UNCHANGED rfLastRun

\* The ticker fires and the goroutine calls maybeRefresh(time.Now().UTC()).
RfEvaluate ==
    /\ rfCall.pc = "idle"
    /\ \E state \in RfStates : maybeRefresh(rfNow, state)
    /\ UNCHANGED <<rfCfg, rfNow, rfSpotCount, rfTotal, rfCredited>>

\* maybeRefresh, the run: r.runFunc(); r.lastRun = now;
\* atomic.StoreInt64(&r.spotCount, 0).
RfRun ==
    /\ rfCall.pc = "run"
    /\ rfLastRun' = rfCall.now
    /\ rfSpotCount' = 0
    /\ rfCredited' = rfCredited + rfCall.loaded
    /\ rfLast' = [op |-> "run", now |-> rfCall.now, state |-> rfCall.state,
                  lastRun |-> rfLastRun, loaded |-> rfCall.loaded]
    /\ rfCall' = RfIdleCall
    /\ UNCHANGED <<rfCfg, rfNow, rfTotal>>

(***************************************************************************)
(* The peer reconnect backoff (package peer, kept in peer/wwv.go after      *)
(* parseWWV).  Durations are in seconds.                                   *)
(***************************************************************************)

\* Bound: the calls of Next and Reset on one backoff.
MaxBackoffCalls == 5

\* One second, the base newBackoff falls back to.
Second == 1

\* The arguments newBackoff is called with.
BkBases == {0, 1, 2}
BkMaxes == {0, 3, 8}

\* newBackoff(base, max)
newBackoff(base, max) ==
    LET b == IF base <= 0 THEN Second ELSE base
        m == IF max < b THEN b ELSE max
    IN [cur |-> b, max |-> m]

\* backoff.Next(): the delay returned and the backoff after the call.
backoffNext(b) ==
    IF b.cur >= b.max
    THEN [d |-> b.max, b |-> b]
    ELSE [d |-> b.cur,
          b |-> [b EXCEPT !.cur = IF b.cur * 2 > b.max THEN b.max ELSE b.cur * 2]]

\* backoff.Reset(): b.cur = 0
backoffReset(b) == [b EXCEPT !.cur = 0]

BkIdleLast == [op |-> "none", d |-> 0, before |-> 0]

BkInit ==
    /\ bkArgs \in [base : BkBases, max : BkMaxes]
    /\ bkBackoff = newBackoff(bkArgs.base, bkArgs.max)
    /\ bkCalls = 0
    /\ bkResets = 0
    /\ bkLast = BkIdleLast

BkIdle ==
    /\ bkArgs = [base |-> 1, max |-> 8]
    /\ bkBackoff = newBackoff(1, 8)
    /\ bkCalls = 0
    /\ bkResets = 0
    /\ bkLast = BkIdleLast

\* A failed attempt asks for the next delay.
BkNext ==
    /\ bkCalls < MaxBackoffCalls
    /\ LET r == backoffNext(bkBackoff)
       IN /\ bkBackoff' = r.b
          /\ bkLast' = [op |-> "Next", d |-> r.d,
                        before |-> IF bkLast.op = "Next" THEN bkLast.d ELSE 0]
    /\ bkCalls' = bkCalls + 1
    /\ UNCHANGED <<bkArgs, bkResets>>

\* A successful attempt resets the backoff.
BkReset ==
    /\ bkCalls < MaxBackoffCalls
    /\ bkBackoff' = backoffReset(bkBackoff)
    /\ bkLast' = [op |-> "Reset", d |-> 0, before |-> 0]
    /\ bkCalls' = bkCalls + 1
    /\ bkResets' = bkResets + 1
    /\ UNCHANGED bkArgs

(***************************************************************************)
(* The peer dedupeCache (package peer, kept at the end of main_test.go): a *)
(* map from key to the time of its sighting, with markSeen and prune.  Its *)
(* callers are not among the sources: they call markSeen and prune in any  *)
(* order, with the time of the call.                                       *)
(***************************************************************************)

\* Bounds: the clock, the calls of markSeen and prune, and the ttl the cache
\* is made with.
MaxSnTime == 4
MaxSnCalls == 4
SnTTL == 2

\* The keys handed to markSeen; one of them is empty.
SnKeys == {"", "PC11^a", "PC11^b"}

\* dedupeCache.markSeen(key, now): the answer and the items after the call.
markSeen(items, key, now) ==
    IF key = "" THEN [seen |-> FALSE, items |-> items]
    ELSE IF key \in DOMAIN items THEN [seen |-> FALSE, items |-> items]
    ELSE [seen |-> TRUE,
          items |-> [k \in DOMAIN items \cup {key} |-> IF k = key THEN now ELSE items[k]]]

\* dedupeCache.prune(now): delete the items with now.Sub(ts) > ttl.
pruneSeen(items, now, ttl) ==
    [k \in {j \in DOMAIN items : ~(now - items[j] > ttl)} |-> items[k]]

SnIdleLast == [op |-> "none", key |-> "", now |-> 0, seen |-> FALSE, before |-> <<>>]

\* newDedupeCache(ttl)
SnInit ==
    /\ snItems = <<>>
    /\ snNow = 0
    /\ snCalls = 0
    /\ snLast = SnIdleLast

SnIdle ==
    /\ snItems = <<>>
    /\ snNow = 0
    /\ snCalls = 0
    /\ snLast = SnIdleLast

SnTick ==
    /\ snNow < MaxSnTime
    /\ snNow' = snNow + 1
    /\ UNCHANGED <<snItems, snCalls, snLast>>

\* A frame arrives and its key is looked up.
SnMarkSeen ==
    /\ snCalls < MaxSnCalls
    /\ \E key \in SnKeys :
          LET r == markSeen(snItems, key, snNow)
          IN /\ snItems' = r.items
             /\ snLast' = [op |-> "markSeen", key |-> key, now |-> snNow, seen |-> r.seen,
                           before |-> snItems]
    /\ snCalls' = snCalls + 1
    /\ UNCHANGED snNow

\* The owner of the cache prunes it.
SnPrune ==
    /\ snCalls < MaxSnCalls
    /\ snItems' = pruneSeen(snItems, snNow, SnTTL)
    /\ snLast' = [op |-> "prune", key |-> "", now |-> snNow, seen |-> FALSE, before |-> snItems]
    /\ snCalls' = snCalls + 1
    /\ UNCHANGED snNow

(***************************************************************************)
(* Specifications                                                          *)
(***************************************************************************)

\* The subsystems at the edges of the pipeline, idle.
EdgeIdle == IgIdle /\ TnIdle /\ FtIdle /\ ScIdle /\ TmIdle /\ CnIdle /\ RfIdle /\ BkIdle /\ SnIdle

\* The harmonic detector alone.
InitHarmonic == HdInit /\ SgIdle /\ ApIdle /\ PlIdle /\ DdIdle /\ SdIdle /\ EdgeIdle
NextHarmonic ==
    \/ HdTick /\ UNCHANGED <<sgVars, apVars, plVars, ddVars, sdVars, edgeVars>>
    \/ HdShouldDrop /\ UNCHANGED <<sgVars, apVars, plVars, ddVars, sdVars, edgeVars>>
SpecHarmonic == InitHarmonic /\ [][NextHarmonic]_vars

\* SuggestCallCorrection alone.
InitSuggest == SgInit /\ HdIdle /\ ApIdle /\ PlIdle /\ DdIdle /\ SdIdle /\ EdgeIdle
NextSuggest ==
    \/ SgSuggest /\ UNCHANGED <<hdVars, apVars, plVars, ddVars, sdVars, edgeVars>>
SpecSuggest == InitSuggest /\ [][NextSuggest]_vars

\* The call-correction stage alone.
InitApply == ApInit /\ HdIdle /\ SgIdle /\ PlIdle /\ DdIdle /\ SdIdle /\ EdgeIdle
NextApply ==
    \/ ApApply /\ UNCHANGED <<hdVars, sgVars, plVars, ddVars, sdVars, edgeVars>>
SpecApply == InitApply /\ [][NextApply]_vars

\* The pipeline behind the deduplicator, with dedup enabled.
InitPipeline == PlInit /\ PlStagesInit /\ SgIdle /\ DdIdle /\ SdIdle /\ EdgeIdle
NextPipeline ==
    \/ PlEmit /\ UNCHANGED <<sgVars, ddVars, sdVars, edgeVars>>
    \/ PlProcessEarly /\ UNCHANGED <<sgVars, ddVars, sdVars, edgeVars>>
    \/ PlProcessWired /\ UNCHANGED <<sgVars, ddVars, sdVars, edgeVars>>
SpecPipeline == InitPipeline /\ [][NextPipeline]_vars

\* The deduplicator and the receiving end of its output channel.
plRest == <<plEmitted, plAvg, plDone, plBuffer, plBroadcast>>
InitDedup == DdInit /\ PlIdle /\ HdIdle /\ SgIdle /\ ApIdle /\ SdIdle /\ EdgeIdle
NextDedup ==
    \/ DdProcess /\ UNCHANGED <<hdVars, sgVars, apVars, plRest, sdVars, edgeVars>>
    \/ DdCleanup /\ UNCHANGED <<hdVars, sgVars, apVars, plRest, sdVars, edgeVars>>
    \/ DdTick /\ UNCHANGED <<hdVars, sgVars, apVars, plRest, sdVars, edgeVars>>
    \/ DdReceive /\ UNCHANGED <<hdVars, sgVars, apVars, plRest, sdVars, edgeVars>>
SpecDedup == InitDedup /\ [][NextDedup]_vars

\* The secondary deduper alone.
InitSecondary == SdInit /\ HdIdle /\ SgIdle /\ ApIdle /\ PlIdle /\ DdIdle /\ EdgeIdle
NextSecondary ==
    \/ SdShouldForward /\ UNCHANGED <<hdVars, sgVars, apVars, plVars, ddVars, edgeVars>>
    \/ SdTick /\ UNCHANGED <<hdVars, sgVars, apVars, plVars, ddVars, edgeVars>>
SpecSecondary == InitSecondary /\ [][NextSecondary]_vars

\* Ingest: one input through the line parser, the frame conversion or
\* FinalizeMode, and the reader of the client's spot channel.
InitIngest == IgInit /\ HdIdle /\ SgIdle /\ ApIdle /\ PlIdle /\ DdIdle /\ SdIdle /\ TnIdle /\ FtIdle /\ ScIdle /\ TmIdle /\ CnIdle /\ RfIdle /\ BkIdle /\ SnIdle
NextIngest ==
    \/ IgParseSpot /\ UNCHANGED <<hdVars, sgVars, apVars, plVars, ddVars, sdVars, tnVars, ftVars, scVars, tmVars, cnVars, rfVars, bkVars, snVars>>
    \/ IgReceive /\ UNCHANGED <<hdVars, sgVars, apVars, plVars, ddVars, sdVars, tnVars, ftVars, scVars, tmVars, cnVars, rfVars, bkVars, snVars>>
    \/ IgParseFrame /\ UNCHANGED <<hdVars, sgVars, apVars, plVars, ddVars, sdVars, tnVars, ftVars, scVars, tmVars, cnVars, rfVars, bkVars, snVars>>
    \/ IgFinalizeMode /\ UNCHANGED <<hdVars, sgVars, apVars, plVars, ddVars, sdVars, tnVars, ftVars, scVars, tmVars, cnVars, rfVars, bkVars, snVars>>
SpecIngest == InitIngest /\ [][NextIngest]_vars

\* Telnet logins.
InitTelnet == TnInit /\ HdIdle /\ SgIdle /\ ApIdle /\ PlIdle /\ DdIdle /\ SdIdle /\ IgIdle /\ FtIdle /\ ScIdle /\ TmIdle /\ CnIdle /\ RfIdle /\ BkIdle /\ SnIdle
NextTelnet ==
    \/ TnAccept /\ UNCHANGED <<hdVars, sgVars, apVars, plVars, ddVars, sdVars, igVars, ftVars, scVars, tmVars, cnVars, rfVars, bkVars, snVars>>
    \/ TnLogin /\ UNCHANGED <<hdVars, sgVars, apVars, plVars, ddVars, sdVars, igVars, ftVars, scVars, tmVars, cnVars, rfVars, bkVars, snVars>>
    \/ TnClose /\ UNCHANGED <<hdVars, sgVars, apVars, plVars, ddVars, sdVars, igVars, ftVars, scVars, tmVars, cnVars, rfVars, bkVars, snVars>>
SpecTelnet == InitTelnet /\ [][NextTelnet]_vars

\* The session filter.
InitFilter == FtInit /\ HdIdle /\ SgIdle /\ ApIdle /\ PlIdle /\ DdIdle /\ SdIdle /\ IgIdle /\ TnIdle /\ ScIdle /\ TmIdle /\ CnIdle /\ RfIdle /\ BkIdle /\ SnIdle
NextFilter ==
    \/ FtSet /\ UNCHANGED <<hdVars, sgVars, apVars, plVars, ddVars, sdVars, igVars, tnVars, scVars, tmVars, cnVars, rfVars, bkVars, snVars>>
    \/ FtMatches /\ UNCHANGED <<hdVars, sgVars, apVars, plVars, ddVars, sdVars, igVars, tnVars, scVars, tmVars, cnVars, rfVars, bkVars, snVars>>
SpecFilter == InitFilter /\ [][NextFilter]_vars

\* A source client, its forwarder and the archive queue.
InitSource == ScInit /\ HdIdle /\ SgIdle /\ ApIdle /\ PlIdle /\ DdIdle /\ SdIdle /\ IgIdle /\ TnIdle /\ FtIdle /\ TmIdle /\ CnIdle /\ RfIdle /\ BkIdle /\ SnIdle
NextSource ==
    \/ ScConnect /\ UNCHANGED <<hdVars, sgVars, apVars, plVars, ddVars, sdVars, igVars, tnVars, ftVars, tmVars, cnVars, rfVars, bkVars, snVars>>
    \/ ScReadLine /\ UNCHANGED <<hdVars, sgVars, apVars, plVars, ddVars, sdVars, igVars, tnVars, ftVars, tmVars, cnVars, rfVars, bkVars, snVars>>
    \/ ScReadError /\ UNCHANGED <<hdVars, sgVars, apVars, plVars, ddVars, sdVars, igVars, tnVars, ftVars, tmVars, cnVars, rfVars, bkVars, snVars>>
    \/ ScReadLoopExit /\ UNCHANGED <<hdVars, sgVars, apVars, plVars, ddVars, sdVars, igVars, tnVars, ftVars, tmVars, cnVars, rfVars, bkVars, snVars>>
    \/ ScReconnect /\ UNCHANGED <<hdVars, sgVars, apVars, plVars, ddVars, sdVars, igVars, tnVars, ftVars, tmVars, cnVars, rfVars, bkVars, snVars>>
    \/ ScBackoffExpire /\ UNCHANGED <<hdVars, sgVars, apVars, plVars, ddVars, sdVars, igVars, tnVars, ftVars, tmVars, cnVars, rfVars, bkVars, snVars>>
    \/ ScSupervisorExit /\ UNCHANGED <<hdVars, sgVars, apVars, plVars, ddVars, sdVars, igVars, tnVars, ftVars, tmVars, cnVars, rfVars, bkVars, snVars>>
    \/ ScUnlicensedExit /\ UNCHANGED <<hdVars, sgVars, apVars, plVars, ddVars, sdVars, igVars, tnVars, ftVars, tmVars, cnVars, rfVars, bkVars, snVars>>
    \/ ScStop /\ UNCHANGED <<hdVars, sgVars, apVars, plVars, ddVars, sdVars, igVars, tnVars, ftVars, tmVars, cnVars, rfVars, bkVars, snVars>>
    \/ ScForward /\ UNCHANGED <<hdVars, sgVars, apVars, plVars, ddVars, sdVars, igVars, tnVars, ftVars, tmVars, cnVars, rfVars, bkVars, snVars>>
    \/ ScForwardResume /\ UNCHANGED <<hdVars, sgVars, apVars, plVars, ddVars, sdVars, igVars, tnVars, ftVars, tmVars, cnVars, rfVars, bkVars, snVars>>
    \/ ScDedupReceive /\ UNCHANGED <<hdVars, sgVars, apVars, plVars, ddVars, sdVars, igVars, tnVars, ftVars, tmVars, cnVars, rfVars, bkVars, snVars>>
SpecSource == InitSource /\ [][NextSource]_vars

\* The goroutines are scheduled fairly: a goroutine that can take a step
\* takes it.  What the outside does (lines, read errors, Stop, Enqueue calls)
\* is not forced.
SpecSourceLive ==
    /\ SpecSource
    /\ WF_scVars(ScConnect)
    /\ WF_scVars(ScReadLoopExit) /\ WF_scVars(ScSupervisorExit) /\ WF_scVars(ScUnlicensedExit)
    /\ WF_scVars(ScReconnect) /\ WF_scVars(ScBackoffExpire)
    /\ WF_scVars(ScForward) /\ WF_scVars(ScForwardResume)
    /\ WF_scVars(ScDedupReceive)

\* The bounded queues: the client's spot channel, the deduplicator's input
\* channel and the archive writer's queue, with their producers and consumers.
NextQueues ==
    \/ ScConnect /\ UNCHANGED <<hdVars, sgVars, apVars, plVars, ddVars, sdVars, igVars, tnVars, ftVars, tmVars, cnVars, rfVars, bkVars, snVars>>
    \/ ScReadLine /\ UNCHANGED <<hdVars, sgVars, apVars, plVars, ddVars, sdVars, igVars, tnVars, ftVars, tmVars, cnVars, rfVars, bkVars, snVars>>
    \/ ScForward /\ UNCHANGED <<hdVars, sgVars, apVars, plVars, ddVars, sdVars, igVars, tnVars, ftVars, tmVars, cnVars, rfVars, bkVars, snVars>>
    \/ ScForwardResume /\ UNCHANGED <<hdVars, sgVars, apVars, plVars, ddVars, sdVars, igVars, tnVars, ftVars, tmVars, cnVars, rfVars, bkVars, snVars>>
    \/ ScDedupReceive /\ UNCHANGED <<hdVars, sgVars, apVars, plVars, ddVars, sdVars, igVars, tnVars, ftVars, tmVars, cnVars, rfVars, bkVars, snVars>>
    \/ ScEnqueue /\ UNCHANGED <<hdVars, sgVars, apVars, plVars, ddVars, sdVars, igVars, tnVars, ftVars, tmVars, cnVars, rfVars, bkVars, snVars>>
    \/ ScInsert /\ UNCHANGED <<hdVars, sgVars, apVars, plVars, ddVars, sdVars, igVars, tnVars, ftVars, tmVars, cnVars, rfVars, bkVars, snVars>>
SpecQueues == InitSource /\ [][NextQueues]_vars

\* parseTimeFromRBN.
InitTime == TmInit /\ HdIdle /\ SgIdle /\ ApIdle /\ PlIdle /\ DdIdle /\ SdIdle /\ IgIdle /\ TnIdle /\ FtIdle /\ ScIdle /\ CnIdle /\ RfIdle /\ BkIdle /\ SnIdle
NextTime ==
    \/ TmParse /\ UNCHANGED <<hdVars, sgVars, apVars, plVars, ddVars, sdVars, igVars, tnVars, ftVars, scVars, cnVars, rfVars, bkVars, snVars>>
    \/ TmNext /\ UNCHANGED <<hdVars, sgVars, apVars, plVars, ddVars, sdVars, igVars, tnVars, ftVars, scVars, cnVars, rfVars, bkVars, snVars>>
SpecTime == InitTime /\ [][NextTime]_vars

\* A source client's connection, read loops and supervisor.
InitConnection == CnInit /\ HdIdle /\ SgIdle /\ ApIdle /\ PlIdle /\ DdIdle /\ SdIdle /\ IgIdle /\ TnIdle /\ FtIdle /\ ScIdle /\ TmIdle /\ RfIdle /\ BkIdle /\ SnIdle
NextConnection ==
    \/ CnConnect /\ UNCHANGED <<hdVars, sgVars, apVars, plVars, ddVars, sdVars, igVars, tnVars, ftVars, scVars, tmVars, rfVars, bkVars, snVars>>
    \/ (\E l \in CnLoops : CnReadError(l)) /\ UNCHANGED <<hdVars, sgVars, apVars, plVars, ddVars, sdVars, igVars, tnVars, ftVars, scVars, tmVars, rfVars, bkVars, snVars>>
    \/ (\E l \in CnLoops : CnReadShutdown(l)) /\ UNCHANGED <<hdVars, sgVars, apVars, plVars, ddVars, sdVars, igVars, tnVars, ftVars, scVars, tmVars, rfVars, bkVars, snVars>>
    \/ (\E l \in CnLoops : CnReadPanic(l)) /\ UNCHANGED <<hdVars, sgVars, apVars, plVars, ddVars, sdVars, igVars, tnVars, ftVars, scVars, tmVars, rfVars, bkVars, snVars>>
    \/ (\E l \in CnLoops : CnDeferClose(l)) /\ UNCHANGED <<hdVars, sgVars, apVars, plVars, ddVars, sdVars, igVars, tnVars, ftVars, scVars, tmVars, rfVars, bkVars, snVars>>
    \/ (\E l \in CnLoops : CnDeferRecover(l)) /\ UNCHANGED <<hdVars, sgVars, apVars, plVars, ddVars, sdVars, igVars, tnVars, ftVars, scVars, tmVars, rfVars, bkVars, snVars>>
    \/ CnReconnect /\ UNCHANGED <<hdVars, sgVars, apVars, plVars, ddVars, sdVars, igVars, tnVars, ftVars, scVars, tmVars, rfVars, bkVars, snVars>>
    \/ CnBackoffExpire /\ UNCHANGED <<hdVars, sgVars, apVars, plVars, ddVars, sdVars, igVars, tnVars, ftVars, scVars, tmVars, rfVars, bkVars, snVars>>
    \/ CnSupervisorExit /\ UNCHANGED <<hdVars, sgVars, apVars, plVars, ddVars, sdVars, igVars, tnVars, ftVars, scVars, tmVars, rfVars, bkVars, snVars>>
    \/ CnStop /\ UNCHANGED <<hdVars, sgVars, apVars, plVars, ddVars, sdVars, igVars, tnVars, ftVars, scVars, tmVars, rfVars, bkVars, snVars>>
SpecConnection == InitConnection /\ [][NextConnection]_vars

\* The adaptive refresher and the goroutines that count spots.
InitRefresh == RfInit /\ HdIdle /\ SgIdle /\ ApIdle /\ PlIdle /\ DdIdle /\ SdIdle /\ IgIdle /\ TnIdle /\ FtIdle /\ ScIdle /\ TmIdle /\ CnIdle /\ BkIdle /\ SnIdle
NextRefresh ==
    \/ RfTick /\ UNCHANGED <<hdVars, sgVars, apVars, plVars, ddVars, sdVars, igVars, tnVars, ftVars, scVars, tmVars, cnVars, bkVars, snVars>>
    \/ IncrementSpots /\ UNCHANGED <<hdVars, sgVars, apVars, plVars, ddVars, sdVars, igVars, tnVars, ftVars, scVars, tmVars, cnVars, bkVars, snVars>>
    \/ RfEvaluate /\ UNCHANGED <<hdVars, sgVars, apVars, plVars, ddVars, sdVars, igVars, tnVars, ftVars, scVars, tmVars, cnVars, bkVars, snVars>>
    \/ RfRun /\ UNCHANGED <<hdVars, sgVars, apVars, plVars, ddVars, sdVars, igVars, tnVars, ftVars, scVars, tmVars, cnVars, bkVars, snVars>>
SpecRefresh == InitRefresh /\ [][NextRefresh]_vars

\* The peer backoff under any sequence of Next and Reset.
InitBackoff == BkInit /\ HdIdle /\ SgIdle /\ ApIdle /\ PlIdle /\ DdIdle /\ SdIdle /\ IgIdle /\ TnIdle /\ FtIdle /\ ScIdle /\ TmIdle /\ CnIdle /\ RfIdle /\ SnIdle
NextBackoff ==
    \/ BkNext /\ UNCHANGED <<hdVars, sgVars, apVars, plVars, ddVars, sdVars, igVars, tnVars, ftVars, scVars, tmVars, cnVars, rfVars, snVars>>
    \/ BkReset /\ UNCHANGED <<hdVars, sgVars, apVars, plVars, ddVars, sdVars, igVars, tnVars, ftVars, scVars, tmVars, cnVars, rfVars, snVars>>
SpecBackoff == InitBackoff /\ [][NextBackoff]_vars

\* The peer dedupeCache under any sequence of markSeen and prune.
InitSeen == SnInit /\ HdIdle /\ SgIdle /\ ApIdle /\ PlIdle /\ DdIdle /\ SdIdle /\ IgIdle /\ TnIdle /\ FtIdle /\ ScIdle /\ TmIdle /\ CnIdle /\ RfIdle /\ BkIdle
NextSeen ==
    \/ SnTick /\ UNCHANGED <<hdVars, sgVars, apVars, plVars, ddVars, sdVars, igVars, tnVars, ftVars, scVars, tmVars, cnVars, rfVars, bkVars>>
    \/ SnMarkSeen /\ UNCHANGED <<hdVars, sgVars, apVars, plVars, ddVars, sdVars, igVars, tnVars, ftVars, scVars, tmVars, cnVars, rfVars, bkVars>>
    \/ SnPrune /\ UNCHANGED <<hdVars, sgVars, apVars, plVars, ddVars, sdVars, igVars, tnVars, ftVars, scVars, tmVars, cnVars, rfVars, bkVars>>
SpecSeen == InitSeen /\ [][NextSeen]_vars

(***************************************************************************)
(* Properties                                                              *)
(***************************************************************************)

\* ---- SuggestCallCorrection ----

\* The candidates that may count: inside the recency window of the subject,
\* from another spotter than the subject's.
SgFresh == {e \in sgOthers : Abs(SgSubject.Time - e.Time) <= sgSettings.RecencyWindow}
SgNotSelf == {e \in sgOthers : e.DECall # SgSubject.DECall}
SgCounted == SgFresh \cap SgNotSelf

\* The distinct spotters that report `call` among the entries E.
SgSpotters(E, call) == {e.DECall : e \in {o \in E : o.DXCall = call}}

SgSubjectSupport == Cardinality(SgSpotters(SgCounted, SgSubject.DXCall) \cup {SgSubject.DECall})

\* C5: a suggestion is returned only for another call than the subject's,
\* within MaxEditDistance, with support >= MinConsensusReports, advantage over
\* the subject >= MinAdvantage and confidence >= MinConfidencePercent, the
\* distance-3 adders added to the last two thresholds at edit distance 3.
C5_SuggestionMeetsThresholds ==
    (sgResult.done /\ sgResult.ok) =>
        LET w == sgResult.call
            support == Cardinality(SgSpotters(SgCounted, w))
            dist == callDistance(SgSubject.DXCall, w)
            extraAdv == IF dist = 3 THEN sgSettings.Distance3ExtraAdvantage ELSE 0
            extraConf == IF dist = 3 THEN sgSettings.Distance3ExtraConfidence ELSE 0
        IN /\ w \in {e.DXCall : e \in sgOthers}
           /\ w # SgSubject.DXCall
           /\ dist <= sgSettings.MaxEditDistance
           /\ support >= sgSettings.MinConsensusReports
           /\ support - SgSubjectSupport >= sgSettings.MinAdvantage + extraAdv
           /\ sgResult.confidence = (support * 100) \div Max2(sgResult.total, 1)
           /\ sgResult.confidence >= sgSettings.MinConfidencePercent + extraConf

\* A call at edit distance 3 has been suggested under settings with adders.
C5_Witness ==
    /\ sgResult.done
    /\ sgResult.ok
    /\ sgResult.call = "K9Z8"
    /\ sgSettings.Distance3ExtraAdvantage = 1

\* C6: a support count is a number of distinct spotters: entries of one
\* spotter add at most 1 to it, and the reports of a single spotter never
\* yield a suggestion when MinConsensusReports >= 2.
C6_UniqueSpotterSupport ==
    sgResult.done =>
        /\ sgResult.ok => sgResult.supporters = Cardinality(SgSpotters(SgCounted, sgResult.call))
        /\ \/ sgResult.supporters = 0
           \/ \E call \in {e.DXCall : e \in sgOthers} :
                 sgResult.supporters <= Cardinality(SgSpotters(sgOthers, call))
        /\ sgResult.total <= Cardinality({<<e.DXCall, e.DECall>> : e \in sgOthers}) + 1
        /\ (sgSettings.MinConsensusReports >= 2
              /\ Cardinality({e.DECall : e \in sgOthers}) <= 1) => ~sgResult.ok

\* One spotter reported the same other call twice inside the window, and
\* nothing was suggested.
C6_Witness ==
    /\ sgResult.done
    /\ ~sgResult.ok
    /\ sgSettings.MinConsensusReports = 2
    /\ sgOthers = {[DXCall |-> "K1A8", DECall |-> "W2BBB", Frequency |-> 14074000, Time |-> SgT0],
                   [DXCall |-> "K1A8", DECall |-> "W2BBB", Frequency |-> 14074000, Time |-> SgT0 - 1]}

\* C7: the entries of the subject's own spotter count nowhere: the results
\* are those of the call without them.
C7_SelfSupportExcluded ==
    sgResult.done =>
        /\ sgResult \in SuggestCallCorrection(SgSubject, SgNotSelf, sgSettings)
        /\ sgResult.total = Cardinality({<<e.DXCall, e.DECall>> : e \in SgCounted}
                                         \cup {<<SgSubject.DXCall, SgSubject.DECall>>})

\* The subject's spotter also reported another call inside the window.
C7_Witness ==
    /\ sgResult.done
    /\ \E e \in sgOthers : /\ e.DECall = SgSubject.DECall
                            /\ e.DXCall = "K1A8"
                            /\ e.Time = SgT0
    /\ sgResult.ok

\* C8: the entries outside the recency window count nowhere, and when every
\* entry for another call is outside it nothing is suggested.
C8_StaleCandidatesIgnored ==
    sgResult.done =>
        /\ sgResult \in SuggestCallCorrection(SgSubject, SgFresh, sgSettings)
        /\ (\A e \in sgOthers : e.DXCall # SgSubject.DXCall => e \notin SgFresh) => ~sgResult.ok

\* Three spotters reported another call, all outside the window.
C8_Witness ==
    /\ sgResult.done
    /\ ~sgResult.ok
    /\ sgOthers = {[DXCall |-> "K1A8", DECall |-> d, Frequency |-> 14074000, Time |-> SgT0 - 3] :
                      d \in {"W2BBB", "W3CCC", "W4DDD"}}

\* The entries of the last call that prune kept, as a set of indices.
HdRetained == {i \in DOMAIN hdLast.before : hdLast.before[i].at > hdLast.now - hdSettings.RecencyWindow}

HdIsMultiple(e) ==
    \E k \in 2..hdSettings.MaxHarmonicMultiple :
        Abs(k * e.frequency - hdLast.Frequency) <= hdSettings.FrequencyToleranceHz

HdBasicMatch(e) ==
    /\ e.frequency > 0
    /\ hdLast.Frequency > e.frequency
    /\ HdIsMultiple(e)
    /\ hdLast.Time - e.at <= hdSettings.RecencyWindow

HdDropStatement(matching) ==
    (hdLast.acted /\ IsCallCorrectionCandidate(hdLast.Mode)) =>
        /\ hdLast.drop <=> (matching # {})
        /\ hdLast.drop => \E i \in matching : hdLast.fundamental = hdLast.before[i].frequency

ApCtyCalls == {"K1AB", "K1A8"}

\* The call SuggestCallCorrection answered ok for a correction-eligible spot,
\* with correction enabled and the CTY database loaded.
ApSuggested ==
    /\ apLast.acted /\ apLast.decided /\ apLast.res.ok
    /\ IsCallCorrectionCandidate(apLast.spot.Mode)
    /\ apCfg.Enabled /\ apCfg.ctyLoaded

\* C9: for a correction-eligible spot, correction enabled and the CTY
\* database present, when SuggestCallCorrection returns ok the stage does
\* exactly one of: CTY knows the suggested call, and DXCall becomes the
\* suggested call with Confidence "C" (not suppressed); CTY does not know it
\* and InvalidAction is "suppress", and the spot is suppressed; CTY does not
\* know it and InvalidAction is anything else, and the spot keeps its
\* original DXCall with Confidence "B" (not suppressed).
C9_CorrectionOutcomes ==
    ApSuggested =>
        IF apLast.res.call \in ApCtyCalls
        THEN /\ apLast.DXCall = apLast.res.call
             /\ apLast.Confidence = "C"
             /\ ~apLast.suppress
        ELSE IF apCfg.InvalidAction = "suppress"
             THEN apLast.suppress
             ELSE /\ ~apLast.suppress
                  /\ apLast.DXCall = apLast.spot.DXCall
                  /\ apLast.Confidence = "B"

\* A CTY miss under the "suppress" policy: the suggested call K9Z8 is unknown
\* to CTY and the spot is suppressed.
C9_Witness ==
    /\ ApSuggested
    /\ apLast.res.call = "K9Z8"
    /\ apCfg.InvalidAction = "suppress"
    /\ apLast.suppress

\* The label the confidence rule gives to (percent, total, known).
ApLabel(percent, total, known) ==
    IF total <= 1 \/ percent <= 25 THEN (IF known THEN "S" ELSE "?")
    ELSE IF percent <= 75 THEN "P"
    ELSE "V"

\* C10: when SuggestCallCorrection suggests no correction, the spot's
\* Confidence is the label of (subject confidence percent, total reporters,
\* known): "S" if known else "?" when total <= 1 or percent <= 25, "P" when
\* 25 < percent <= 75, "V" when percent > 75; and it is one of these four.
C10_ConfidenceLabel ==
    (apLast.acted /\ apLast.decided /\ ~apLast.res.ok) =>
        /\ apLast.Confidence =
               ApLabel(apLast.res.subjectConfidence, apLast.res.total, apLast.known)
        /\ apLast.Confidence \in {"S", "?", "P", "V"}
        /\ apLast.DXCall = apLast.spot.DXCall
        /\ ~apLast.suppress

\* Four reporters, one of them for the subject: 25 percent, on the boundary,
\* and the known call is labelled "S".
C10_Witness ==
    /\ apLast.acted /\ apLast.decided /\ ~apLast.res.ok
    /\ apLast.res.total = 4
    /\ apLast.res.subjectConfidence = 25
    /\ apLast.known
    /\ apLast.Confidence = "S"

\* The spots the pipeline has finished with and that no stage dropped.
PlSurvivors ==
    {plDone[i].id : i \in {j \in DOMAIN plDone :
        ~plDone[j].stale /\ ~plDone[j].suppress /\ ~plDone[j].harmonic}}

\* C1: with dedup enabled, every spot the deduplicator emitted and the
\* pipeline has processed without the age gate, call-correction suppression
\* or the harmonic detector dropping it has been handed to BroadcastSpot
\* exactly once; and no spot is ever handed to it twice.
C1_BroadcastExactlyOnce ==
    /\ \A id \in PlSurvivors : broadcastCount(id) = 1
    /\ \A id \in 1..Len(plEmitted) : broadcastCount(id) <= 1

\* The fingerprint as the contract states it: DX call, DE call, mode,
\* frequency rounded to 0.1 kHz, and the time bucket of the cluster window.
DdKey(s) ==
    <<s.DXCall, s.DECall, s.Mode,
      IF (s.Frequency % 100) >= 50 THEN (s.Frequency - (s.Frequency % 100)) + 100
      ELSE s.Frequency - (s.Frequency % 100),
      s.Time \div DdWindow>>

\* Arrival j is the first of its fingerprint.
DdFirst(j) == \A i \in 1..(j - 1) : DdKey(ddLog[i].spot) # DdKey(ddLog[j].spot)

DdCount(outcome) == Cardinality({i \in DOMAIN ddLog : ddLog[i].outcome = outcome})

DdAtMostOne ==
    \A i, j \in DOMAIN ddLog :
        (/\ i < j
         /\ DdKey(ddLog[i].spot) = DdKey(ddLog[j].spot)
         /\ ddLog[i].outcome = "emitted") => ddLog[j].outcome # "emitted"

DdLaterCounted ==
    /\ \A j \in DOMAIN ddLog : ~DdFirst(j) => ddLog[j].outcome = "duplicate"
    /\ ddStats.duplicates = DdCount("duplicate")
    /\ ddStats.processed = Len(ddLog)

SdSkimmerClass == {"RBN", "FT8", "FT4", "PSKReporter"}

SdSameClass(a, b) == (a.SourceType \in SdSkimmerClass) <=> (b.SourceType \in SdSkimmerClass)

SdSameKey(a, b) ==
    /\ a.DXCall = b.DXCall /\ a.DECall = b.DECall
    /\ a.Mode = b.Mode /\ a.Frequency = b.Frequency

\* The earlier calls that forwarded a spot of the same key and the same
\* source class as call j's, less than a window before it.
SdForwardedBefore(j) ==
    {i \in 1..(j - 1) :
        /\ sdLog[i].forward
        /\ SdSameKey(sdLog[i].spot, sdLog[j].spot)
        /\ SdSameClass(sdLog[i].spot, sdLog[j].spot)
        /\ sdLog[j].at - sdLog[i].at < SdWindow}

PlAveraged ==
    {i \in DOMAIN plDone :
        ~plDone[i].stale /\ ~plDone[i].suppress /\ ~plDone[i].harmonic}

\* C11: for a CW or RTTY spot the pipeline rewrites Frequency to the window
\* mean rounded to 0.1 kHz iff the reports in the window are at least
\* FrequencyAveragingMinReports and the rounded mean is at least the
\* tolerance (0.3 kHz by default) from the spot's frequency; in every other
\* case, and for every other mode, Frequency is left unchanged.
C11_RewriteIffAsStated ==
    \A i \in PlAveraged :
        LET d == plDone[i]
            rewrite == /\ d.received.Mode \in {"CW", "RTTY"}
                       /\ d.reports >= spotPolicy.FrequencyAveragingMinReports
                       /\ Abs(d.rounded - d.received.Frequency) >= 300
        IN d.spot.Frequency = IF rewrite THEN d.rounded ELSE d.received.Frequency

\* ---- ingest ----

\* A frequency inside [100, 3,000,000] kHz.
IgInRange(f) == ~f.nan /\ f.v >= 1000 /\ f.v <= 30000000

\* C12: every spot the line parser builds and every spot the PC11/PC61
\* frame conversion returns has its Frequency inside [100, 3,000,000] kHz,
\* so a line or frame whose frequency is outside the range yields no spot.
C12_FrequencyInRange ==
    /\ igParsed.called /\ igParsed.built => IgInRange(igParsed.spot.Frequency)
    /\ igFrameOut.called /\ igFrameOut.ok => IgInRange(igFrameOut.spot.Frequency)

\* ---- telnet sessions ----

\* C13: at most one active session per normalized callsign: two different
\* sessions that are both active never hold the same callsign.
C13_OneSessionPerCallsign ==
    \A i, j \in TnSessionIds :
        (i # j /\ tnSessions[i].state = "Active" /\ tnSessions[j].state = "Active")
            => tnSessions[i].callsign # tnSessions[j].callsign

\* ---- the session filter ----

\* Whether the whitelist of a field accepts a value: it has no entries, or
\* the value is one of them.
FtAccepts(field, value) == ftFilter.lists[field] = {} \/ value \in ftFilter.lists[field]

IgLineHasSSB == \E i \in 1..Len(igInput.tokens) : igInput.tokens[i] = Str("SSB")

\* C15: a spot the line parser emits from a line carrying the generic mode
\* token SSB has Mode USB if its frequency is at least 10000 kHz and LSB
\* otherwise, whatever the order of the mode and frequency tokens.
C15_SSBResolvedByFrequency ==
    (igParsed.called /\ igParsed.built /\ IgLineHasSSB) =>
        igParsed.spot.Mode = (IF FloatAtLeast(igParsed.spot.Frequency, Float(100000))
                              THEN Str("USB") ELSE Str("LSB"))

\* C16: mode normalization is idempotent: FinalizeMode(FinalizeMode(m, f), f)
\* = FinalizeMode(m, f) for every mode m and frequency f, and the result is
\* never empty and never the generic SSB.
C16_FinalizeModeIdempotent ==
    igModeOut.called =>
        /\ igModeOut.twice = igModeOut.once
        /\ igModeOut.once # <<>>
        /\ igModeOut.once # Str("SSB")

\* FinalizeMode has resolved a generic SSB: one given as the mode, or one
\* found in the allocation table for a spot without a mode.
C16_Witness ==
    /\ igModeOut.called
    /\ igModeOut.once \in {Str("USB"), Str("LSB")}
    /\ \/ ToUpper(TrimSpace(igInput.mode)) = Str("SSB")
       \/ (TrimSpace(igInput.mode) = <<>> /\ GuessModeFromAlloc(igModeAlloc, igInput.freq) = Str("SSB"))

\* ---- bounded queues and shutdown ----

\* C17: the goroutine that forwards a source's spots into the deduplicator
\* never blocks when the deduplicator's input channel is full: it is never
\* parked in the send.
C17_ForwarderNeverBlocks == scForwarder.pc # "send"

ScLastCap == IF scLast.op = "publish" THEN IgChanCap ELSE ArchiveQueueCap

\* C18: publishing a parsed spot on the client's spot channel and
\* Writer.Enqueue never block: on a full queue the spot is dropped and the
\* queue's contents are unchanged (it never holds more than its capacity);
\* otherwise the spot is appended.
C18_EnqueueDropsOnFull ==
    scLast.op \in {"publish", "Enqueue"} =>
        /\ Len(scLast.after) <= ScLastCap
        /\ Len(scLast.before) >= ScLastCap => scLast.after = scLast.before
        /\ Len(scLast.before) < ScLastCap => scLast.after = Append(scLast.before, scLast.spot)

\* A spot was published on a full spot channel, after the archive queue had
\* also dropped one.
C18_Witness ==
    /\ scLast.op = "publish"
    /\ Len(scLast.before) >= IgChanCap
    /\ scCount.clientDropped > 0
    /\ scCount.archiveDropped > 0

\* C19: every item dropped on a full queue increments a drop counter, so
\* the counter equals the number of items dropped so far (the archive
\* writer's dropCount; the source client keeps no counter to compare).
C19_DropCounterCountsDrops == scDropCount = scCount.archiveDropped

\* C20: after the shutdown signal the read loop, the connection supervisor,
\* the unlicensed-reporter loop and the forwarding goroutine all eventually
\* terminate.
C20_AllGoroutinesTerminate ==
    scShutdown ~> (/\ scReadLoop \in {"none", "done"}
                   /\ scSupervisor \in {"absent", "done"}
                   /\ scUnlicensed = "done"
                   /\ scForwarder.pc \in {"none", "done"})

\* ---- reconnects ----

\* The source is down after a failure: Connect was called, no read loop is
\* running and shutdown was not requested.
ScDown == ~scShutdown /\ scSupervisor # "new" /\ scReadLoop # "running"

ScMaxAttempts == 1 + MaxReadErrors * (MaxDialFailures + 1)

\* C21: every connection failure of a source, the failure of the first dial
\* in Connect included, is followed by a further connection attempt unless
\* shutdown is requested.
C21_FailureIsRetried ==
    \A n \in 0..ScMaxAttempts :
        (ScDown /\ scCount.attempts = n) ~> (scShutdown \/ scCount.attempts > n)

\* C22: the waits between consecutive failed dial attempts of one reconnect
\* request are 5 s, 10 s, 20 s, 40 s, 60 s, 60 s, ...: the first is 5 s,
\* each next one is double the previous, none exceeds 60 s, and each new
\* reconnect request starts again at 5 s.
C22_BackoffWaits ==
    \A i \in 1..Len(scWaits) :
        /\ scWaits[i] <= 60
        /\ i = 1 => scWaits[i] = 5
        /\ i > 1 => scWaits[i] = (IF scWaits[i - 1] * 2 > 60 THEN 60 ELSE scWaits[i - 1] * 2)

\* The second reconnect request has waited 5, 10, 20, 40 and 60 s.
C22_Witness ==
    /\ scCount.errors = 2
    /\ Len(scWaits) >= 5
    /\ scWaits[4] = 40 /\ scWaits[5] = 60

ScIncreasing(q) == \A i \in 1..Len(q) : \A j \in 1..Len(q) : i < j => q[i] < q[j]

\* C23: the spots received from GetSpotChannel, followed by those still in
\* the channel, are a subsequence of the lines read, in the order read,
\* also across reconnects.
C23_ArrivalOrder ==
    /\ ScIncreasing(scReceived \o scSpotChan)
    /\ \A i \in 1..Len(scReceived) : scReceived[i] \in 1..scCount.read

\* Two spots were in the channel together, and the receiver has taken spots
\* read before and after a reconnect.
C23_Witness ==
    /\ scCount.errors >= 1
    /\ Len(scReceived) = MaxSourceSpots
    /\ scLast.op = "publish" /\ Len(scLast.before) >= 1

\* ---- source and human flag ----

\* C24: for every spot produced by an ingest path (the line parser, strict
\* or permissive, and the PC11/PC61 frame conversion) IsHuman is false iff
\* the SourceType is a skimmer source: IsHuman = !IsSkimmerSource(SourceType).
C24_HumanIffNotSkimmer ==
    /\ (igParsed.called /\ igParsed.built) =>
           (igParsed.spot.IsHuman <=> ~IsSkimmerSource(igParsed.spot.SourceType))
    /\ (igFrameOut.called /\ igFrameOut.ok) =>
           (igFrameOut.spot.IsHuman <=> ~IsSkimmerSource(igFrameOut.spot.SourceType))

\* ---- time tokens ----

\* The hour and minute a time token names, as seconds into the day.
TmClock(tok) == (DigitValue(tok[1]) * 10 + DigitValue(tok[2])) * 3600
                + (DigitValue(tok[3]) * 10 + DigitValue(tok[4])) * 60

\* C25: for every token accepted as a time token (four digits and Z)
\* parseTimeFromRBN returns an instant within 12 hours of the current UTC
\* time: the token's HH:MM on today's date, or on the day before or after.
C25_TimeWithinTwelveHours ==
    (tmOut.called /\ tmOut.accepted) =>
        /\ Abs(tmOut.t - tmNow) <= TwelveHours
        /\ \E d \in {-1, 0, 1} :
              tmOut.t = (tmNow - (tmNow % SecondsPerDay)) + d * SecondsPerDay + TmClock(tmToken)

\* ---- the order of the pipeline's stages ----

\* The record of the spot a step of the pipeline has just finished with.
PlFinished == plDone'[Len(plDone')]

\* C26: the pipeline applies its stages to a spot in the order age gate,
\* call-correction, harmonic suppression, frequency averaging, store,
\* broadcast: a spot dropped by a stage has passed the earlier stages and
\* reaches no later one (it is neither stored nor broadcast), the harmonic
\* stage sees the call the correction stage left, and a spot that passes
\* every stage is stored as the averaging stage left it.
C26_StagesInOrder ==
    [][Len(plDone') = Len(plDone) + 1 =>
          /\ PlFinished.stale =>
                 UNCHANGED <<apVars, hdVars, plAvg, plBuffer, plBroadcast>>
          /\ PlFinished.suppress =>
                 /\ apCalls' = apCalls + 1
                 /\ UNCHANGED <<hdVars, plAvg, plBuffer, plBroadcast>>
          /\ PlFinished.harmonic =>
                 /\ hdLast'.acted /\ hdLast'.drop
                 /\ hdLast'.DXCall = PlFinished.spot.DXCall
                 /\ UNCHANGED <<plAvg, plBuffer, plBroadcast>>
          /\ (~PlFinished.stale /\ ~PlFinished.suppress /\ ~PlFinished.harmonic) =>
                 /\ hdLast'.DXCall = PlFinished.spot.DXCall
                 /\ ~hdLast'.drop
                 /\ plBuffer' = Append(plBuffer, PlFinished.id)
                 /\ plBroadcast' \in {plBroadcast, Append(plBroadcast, PlFinished.id)}
          /\ (apCalls' # apCalls /\ ~PlFinished.suppress) =>
                 (hdLast'.DXCall = apLast'.DXCall /\ PlFinished.spot.DXCall = apLast'.DXCall)
      ]_vars

\* The pipeline has dropped a stale spot, suppressed one in the correction
\* stage or dropped a harmonic, and has stored and broadcast another.
C26_Witness ==
    /\ \E i \in DOMAIN plDone : plDone[i].stale
    /\ \E i \in DOMAIN plDone : plDone[i].harmonic \/ plDone[i].suppress
    /\ \E i \in DOMAIN plDone : plDone[i].id \in {plBroadcast[j] : j \in DOMAIN plBroadcast}

\* C27: the deduplicator's output channel is drained by exactly one pipeline
\* goroutine for the lifetime of the process: every spot the pipeline has
\* finished with was received by the same goroutine.
C27_SingleConsumer ==
    \A i \in DOMAIN plDone : \A j \in DOMAIN plDone : plDone[i].by = plDone[j].by

\* ---- the correction index ----

\* The entry idx.Add stores for the spot the stage has just decided on.
ApOwnEntry ==
    [DXCall |-> apLast'.DXCall, DECall |-> apLast'.spot.DECall,
     Frequency |-> apLast'.spot.Frequency, Time |-> apLast'.spot.Time]

\* C28: maybeApplyCallCorrection adds the subject spot to the correction
\* index only after Candidates and SuggestCallCorrection were evaluated for
\* it, on every return path and exactly once per eligible spot: the
\* candidates of the decision are entries the index held before the call,
\* the index holds the spot's entry after it and gained nothing else; a
\* spot that is not eligible leaves the index unchanged.
C28_IndexAddAfterDecision ==
    [][apCalls' = apCalls + 1 =>
          IF apLast'.decided
          THEN /\ apLast'.others \subseteq apIndex
               /\ ApOwnEntry \in apIndex'
               /\ (apIndex' \ {ApOwnEntry}) \subseteq apIndex
          ELSE /\ ~IsCallCorrectionCandidate(apLast'.spot.Mode) \/ ~apCfg.Enabled
               /\ UNCHANGED apIndex
      ]_vars

\* A suppressed spot was added to an index that did not hold its entry,
\* after a decision that had candidates.
C28_Witness ==
    /\ apLast.decided /\ apLast.suppress
    /\ apLast.others # {}
    /\ [DXCall |-> apLast.DXCall, DECall |-> apLast.spot.DECall,
        Frequency |-> apLast.spot.Frequency, Time |-> apLast.spot.Time] \in apIndex \ apLast.others

\* C29: a spot leaves the call-correction stage with Confidence "C" only if
\* its DXCall was replaced by the suggested call in that stage; whenever
\* DXCall is left as received, Confidence is one of "", "?", "S", "P", "V",
\* "B".
C29_CorrectedOnlyIfReplaced ==
    apLast.acted =>
        /\ apLast.Confidence = "C" =>
               /\ apLast.decided /\ apLast.res.ok
               /\ apLast.DXCall = apLast.res.call
               /\ apLast.DXCall # apLast.spot.DXCall
        /\ apLast.DXCall = apLast.spot.DXCall =>
               apLast.Confidence \in {"", "?", "S", "P", "V", "B"}

\* ---- the harmonic detector's entries ----

\* The spot of the call of ShouldDrop just made is an eligible candidate.
HdEligible ==
    /\ hdSettings.Enabled
    /\ IsCallCorrectionCandidate(hdLast'.Mode)
    /\ hdLast'.DXCall # ""

\* The entry ShouldDrop stores for the spot of the call just made.
HdOwnEntry ==
    [frequency |-> hdLast'.Frequency, report |-> hdLast'.Report, at |-> hdLast'.Time]

\* The entries of a list, as a set.
HdRange(slice) == {slice[i] : i \in DOMAIN slice}

\* C30: ShouldDrop records a spot as a potential fundamental iff the spot is
\* an eligible candidate (detector enabled, correction-eligible mode,
\* non-empty DX call) and was not dropped: then its entry is the last of its
\* call's entries and the ones before it were there already.  A spot
\* reported as a harmonic is never stored: its call keeps no more entries
\* than it had, all of them older ones, and the fundamental that caused the
\* drop is one of them.  A non-candidate spot is not dropped and leaves the
\* detector's state unchanged.  The entries of other calls never change.
C30_RecordedIffCandidateNotDropped ==
    [][hdCalls' = hdCalls + 1 =>
          IF ~HdEligible
          THEN ~hdLast'.drop /\ UNCHANGED <<hdEntries, hdSettings>>
          ELSE LET call == hdLast'.DXCall
                   old == hdEntries[call]
                   new == hdEntries'[call]
               IN /\ \A c \in DOMAIN hdEntries \ {call} : hdEntries'[c] = hdEntries[c]
                  /\ IF hdLast'.drop
                     THEN /\ Len(new) <= Len(old)
                          /\ HdRange(new) \subseteq HdRange(old)
                          /\ \E e \in HdRange(new) : e.frequency = hdLast'.fundamental
                     ELSE /\ Len(new) >= 1
                          /\ new[Len(new)] = HdOwnEntry
                          /\ Len(new) <= Len(old) + 1
                          /\ HdRange(SubSeq(new, 1, Len(new) - 1)) \subseteq HdRange(old)
      ]_vars

\* The last of the calls made dropped a harmonic and left its call with the
\* fundamental alone.
C30_Witness ==
    /\ hdLast.acted /\ hdLast.drop
    /\ hdCalls = MaxHdCalls
    /\ Len(hdEntries[hdLast.DXCall]) = 1
    /\ hdEntries[hdLast.DXCall][1].frequency = hdLast.fundamental

\* The entries of call c that are inside the recency window at time now.
HdInsideWindow(c, now) ==
    \A i \in DOMAIN hdEntries[c] : hdEntries[c][i].at > now - hdSettings.RecencyWindow

\* C31: after any sequence of ShouldDrop calls, every entry the harmonic
\* detector holds, for every DX call, lies inside the recency window at the
\* time of the last call: its time is later than that time minus
\* RecencyWindow.
C31_EntriesInsideWindow ==
    hdLast.acted => \A c \in DOMAIN hdEntries : HdInsideWindow(c, hdLast.now)

\* ---- the read loop's way out ----

\* C32: a panic raised while the read loop processes a line is recovered
\* inside the read loop: when the loop has finished unwinding, its connection
\* is closed, a reconnect is requested (unless shutdown was requested) and
\* the process is still running.
C32_PanicRecovered ==
    [][\A l \in CnLoops :
          (cnLoops[l] = "recover" /\ cnLoops'[l] = "done") =>
              /\ l \notin cnOpen'
              /\ ~cnShutdown => cnReconnect'
              /\ cnProcess' = "running"
      ]_vars

\* A read loop that panicked has returned, with a reconnect requested.
C32_Witness ==
    /\ cnLast.op = "exit" /\ cnLast.panic
    /\ cnLast.loop \notin cnOpen
    /\ ~cnShutdown /\ cnReconnect
    /\ cnProcess = "running"

\* C36: a terminating read loop closes only the connection it was reading
\* from and clears the connected flag only for that connection: once the
\* supervisor has established a replacement connection, the previous
\* connection's read loop neither closes the new connection nor marks the
\* client disconnected.
C36_LoopClosesOwnConnection ==
    cnLast.op = "close" =>
        /\ cnLast.target = cnLast.loop
        /\ cnLast.current = cnLast.loop

\* ---- the token loop of parseSpot ----

\* The clean tokens of the line parseSpot was handed, upper-cased.
IgUpper(i) == ToUpper(cleanToken(igInput.tokens[i]))

\* Token i of the line is a structural or mode keyword.
IgIsKeyword(i) == classifyTokenWithFallback(IgUpper(i)).kind # "acTokenUnknown"

\* C33: the DX call chosen by parseSpot is the first token, after a frequency
\* is known, that validates as a callsign and does not match any keyword: a
\* token equal to a structural or mode keyword is never taken as the DX call,
\* also when the mode slot is already filled.
C33_DXCallNeverKeyword ==
    (igParsed.called /\ igParsed.loop.dxIdx > 0) => ~IgIsKeyword(igParsed.loop.dxIdx)

\* Token i of the line is numeric, lies in [100, 3,000,000] and contains a
\* decimal point.
IgIsDecimalFrequency(i) ==
    /\ parseFrequencyCandidate(cleanToken(igInput.tokens[i])).ok
    /\ IndexByte(cleanToken(igInput.tokens[i]), ".") # 0

\* C34: unless the frequency was captured from the spotter token's glued
\* :FREQ suffix, parseSpot takes as the frequency the first token that is
\* numeric, lies in [100, 3,000,000] and contains a decimal point; an integer
\* token without a decimal point is never taken as the frequency.
C34_FrequencyHasDecimalPoint ==
    (igParsed.called /\ igParsed.loop.freqIdx > 3) =>
        /\ IgIsDecimalFrequency(igParsed.loop.freqIdx)
        /\ \A i \in 4..(igParsed.loop.freqIdx - 1) : ~IgIsDecimalFrequency(i)

\* Token i of the line is a signed integer in [-200, 200].
IgIsSignedInt(i) == parseSignedInt(cleanToken(igInput.tokens[i])).ok

\* The token that classifies as dB and was consumed together with the
\* pending number as the Report; 0 when there is none.
IgDBIdx ==
    LET taken == {i \in 4..Len(igInput.tokens) :
                     /\ IgUpper(i) = Str("DB")
                     /\ igParsed.loop.reportIdx \in 4..(i - 1)
                     /\ \A j \in (igParsed.loop.reportIdx + 1)..(i - 1) : IgUpper(j) # Str("DB")}
    IN IF taken = {} THEN 0 ELSE CHOOSE i \in taken : TRUE

\* C37: when parseSpot consumes a dB token together with the pending number
\* as the Report, that number is the most recent signed-integer token in
\* [-200, 200] preceding the dB token: no signed integer stands between the
\* number taken and the dB token.
C37_ReportIsNearestInteger ==
    (igParsed.called /\ igParsed.loop.hasReport /\ IgDBIdx > 0) =>
        /\ IgIsSignedInt(igParsed.loop.reportIdx)
        /\ \A j \in (igParsed.loop.reportIdx + 1)..(IgDBIdx - 1) : ~IgIsSignedInt(j)

\* ---- the adaptive refresher ----

\* The interval configured for a state, the normal one for an unknown state.
RfConfigured(cfg, state) ==
    IF state \in DOMAIN minutes(cfg) THEN minutes(cfg)[state] ELSE cfg.NormalRefreshMinutes

\* C35: maybeRefresh invokes the refresh callback only when at least the
\* interval configured for the busiest current band state (the normal
\* interval for an unknown state) has elapsed since the last run and at least
\* MinSpotsSinceLastRefresh spots were counted since the last run; after a
\* run the spot counter is 0 and lastRun is the run time; the first
\* evaluation only initialises lastRun and never runs the callback.
C35_RefreshGated ==
    /\ [](rfLast.op = "run" =>
            /\ rfLast.lastRun # 0
            /\ rfLast.now - rfLast.lastRun >= RfConfigured(rfCfg, rfLast.state)
            /\ rfLast.loaded >= rfCfg.MinSpotsSinceLastRefresh)
    /\ [][/\ (rfCall.pc = "run" /\ rfCall'.pc = "idle") =>
                (rfSpotCount' = 0 /\ rfLastRun' = rfCall.now)
          /\ (rfLastRun = 0 /\ rfLast' # rfLast) =>
                (rfLast'.op = "init" /\ rfLastRun' = rfLast'.now /\ rfCall'.pc = "idle"
                 /\ UNCHANGED <<rfSpotCount, rfCredited>>)
        ]_vars

\* A refresh has run in the busy state, one minute after the first
\* evaluation, on two counted spots.
C35_Witness ==
    /\ rfLast.op = "run" /\ rfLast.state = "busy"
    /\ rfLast.now - rfLast.lastRun = 1
    /\ rfLast.loaded = 2
    /\ rfSpotCount = 0 /\ rfLastRun = rfLast.now

\* C38: no spot increment is lost across a refresh: every IncrementSpots call
\* is either in a count that allowed a refresh or still in the counter, so
\* whenever no call of maybeRefresh is in progress the calls made so far are
\* the counts the runs were allowed on plus the counter.
C38_NoIncrementLost ==
    rfCall.pc = "idle" => rfTotal = rfCredited + rfSpotCount

\* ---- the peer backoff ----

\* The base and the maximum the backoff was built with.
BkBase == newBackoff(bkArgs.base, bkArgs.max).cur
BkMax == newBackoff(bkArgs.base, bkArgs.max).max

\* The delay the doubling sequence gives after delay d.
BkDoubled(d) == IF d * 2 > BkMax THEN BkMax ELSE d * 2

\* C39: every delay returned by the peer backoff's Next lies in [base, max]
\* in every reachable state: successive calls return base, 2*base, 4*base,
\* ... capped at max, and after Reset the next call returns base and the
\* doubling sequence starts again.
C39_DelayWithinBaseAndMax ==
    bkLast.op = "Next" =>
        /\ bkLast.d >= BkBase /\ bkLast.d <= BkMax
        /\ bkLast.d = (IF bkLast.before = 0 THEN BkBase ELSE BkDoubled(bkLast.before))

\* ---- the peer dedupeCache ----

\* The cache held, before the last call, a sighting of the call's key younger
\* than ttl.
SnYoungSighting ==
    /\ snLast.key \in DOMAIN snLast.before
    /\ snLast.now - snLast.before[snLast.key] < SnTTL

\* C40: the peer dedupeCache is a time-bounded set: markSeen(key, now)
\* returns true exactly when key is non-empty and the cache holds no sighting
\* of key younger than ttl, so it returns false for a key first seen less
\* than ttl ago and true again once ttl has elapsed since that sighting; an
\* empty key is never stored.
C40_MarkSeenTimeBounded ==
    /\ "" \notin DOMAIN snItems
    /\ snLast.op = "markSeen" =>
           (snLast.seen <=> (snLast.key # "" /\ ~SnYoungSighting))

=============================================================================
